---- MODULE Spec2Model ----
(***************************************************************************)
(* State-machine model of music_cleanup.organizer: the batch relocation    *)
(* engine (organize_files, organize_sidecar_files) over a filesystem made  *)
(* of regular files and directories.                                       *)
(*                                                                         *)
(* A path is a sequence of name components (strings); <<>> is "/".         *)
(* Names are real strings, so stem/suffix splitting, the " (k)" collision  *)
(* suffix and sanitize_name are computed character by character.           *)
(***************************************************************************)
EXTENDS Integers, Sequences, FiniteSets, TLC

MaxRecords == 2      \* longest record list handed to organize_files
MaxRuns == 2         \* calls of an entry point in one behaviour
MaxVotes == 3        \* audio files of the one source directory of the vote runs
MaxTaken == 2        \* highest numbered name already taken in the probe runs
MaxName == 3         \* length of the tag values of the sanitizer runs

VARIABLES
  files,                      \* path -> content id, the regular files on disk
  dirs,                       \* set of paths that are directories
  readonly,                   \* directories in which no entry may be created or removed
  records,                    \* the caller's list of TrackRecord
  destination_root,
  copy_instead_of_move,
  entry,                      \* "organize_files" or "organize_sidecar_files"
  dry_run,
  pc,                         \* position in the running call
  idx,                        \* records processed so far (enumerate index)
  moved, skipped, sidecar_moved, warnings,
  source_to_dest_candidates,  \* ordered votes: <<[src, tally: <<[dest, n]>>]>>
  source_to_dest,             \* ordered map: <<[src, dest]>>
  sidecar_files_by_dir,       \* ordered map: <<[dir, files: <<path>>]>>
  sdir, sfile,                \* position in the sidecar loops
  dest_dir,                   \* destination resolved for the current sidecar directory
  runs,                       \* history: calls started so far
  files0, dirs0,              \* history: the tree when the current call started
  dirs1,                      \* history: the directories when the sidecar step started
  outcome,                    \* history: per record, what the primary pass did
  sidecar_log,                \* history: sidecar relocations performed or planned
  prev,                       \* history: result of the previous call
  tags,                       \* audio file -> the artist and album tags read from it
  scan_warnings,              \* ScanResult.warnings of the scan that made the records
  enriched,                   \* what enrich_with_musicbrainz returned, if it ran
  unlistable,                 \* directories whose listing raises PermissionError
  unstatable,                 \* files whose stat raises OSError (an I/O error)
  progress_callback,          \* a progress callback was given to the entry point
  calls,                      \* the (completed, total) pairs it received in this call
  files_done                  \* files_done of _move_sidecar_candidates

vars == <<files, dirs, readonly, records, destination_root, copy_instead_of_move,
          entry, dry_run, pc, idx, moved, skipped, sidecar_moved, warnings,
          source_to_dest_candidates, source_to_dest, sidecar_files_by_dir,
          sdir, sfile, dest_dir, runs, files0, dirs0, dirs1, outcome,
          sidecar_log, prev, tags, scan_warnings, enriched, unlistable, unstatable,
          progress_callback, calls, files_done>>

-----------------------------------------------------------------------------
(* pathlib *)

Parent(p) == SubSeq(p, 1, Len(p) - 1)
Name(p) == p[Len(p)]
Prefixes(p) == { SubSeq(p, 1, k) : k \in 0..Len(p) }
\* Path.parents as a sequence: parents[0] is the parent, the last one is "/"
PathParents(p) == [i \in 1..Len(p) |-> SubSeq(p, 1, Len(p) - i)]
IsUnder(p, top) == Len(top) <= Len(p) /\ SubSeq(p, 1, Len(top)) = top

\* str.rfind(c) within s[:i], as a 1-based index, 0 when c does not occur
RFind(s, c, i) ==
  LET scan[k \in Nat] ==
        IF k = 0 THEN 0
        ELSE IF SubSeq(s, k, k) = c THEN k ELSE scan[k - 1]
  IN scan[i]

\* PurePath.suffix / PurePath.stem: split at the last dot unless it is the
\* first or the last character of the name
HasSuffix(name) ==
  LET j == RFind(name, ".", Len(name)) IN 1 < j /\ j < Len(name)
Suffix(name) ==
  IF HasSuffix(name)
  THEN SubSeq(name, RFind(name, ".", Len(name)), Len(name)) ELSE ""
Stem(name) ==
  IF HasSuffix(name)
  THEN SubSeq(name, 1, RFind(name, ".", Len(name)) - 1) ELSE name

\* str(path)
PathStr(p) ==
  LET join[k \in Nat] == IF k = 0 THEN "" ELSE join[k - 1] \o "/" \o p[k]
  IN join[Len(p)]

\* Path(relative_path).parts: split at "/", empty parts dropped
SplitParts[s \in STRING, i \in Nat, cur \in STRING] ==
  IF i > Len(s) THEN (IF cur = "" THEN <<>> ELSE <<cur>>)
  ELSE IF SubSeq(s, i, i) = "/"
       THEN (IF cur = "" THEN <<>> ELSE <<cur>>) \o SplitParts[s, i + 1, ""]
       ELSE SplitParts[s, i + 1, cur \o SubSeq(s, i, i)]
Parts(s) == SplitParts[s, 1, ""]

StartsWith(s, pre) == Len(pre) <= Len(s) /\ SubSeq(s, 1, Len(pre)) = pre

UpperChars == "ABCDEFGHIJKLMNOPQRSTUVWXYZ"
LowerChars == "abcdefghijklmnopqrstuvwxyz"
UpperSet == { SubSeq(UpperChars, i, i) : i \in 1..Len(UpperChars) }
LowerChar[c \in STRING] ==
  IF c \notin UpperSet THEN c
  ELSE LET at == RFind(UpperChars, c, Len(UpperChars)) IN SubSeq(LowerChars, at, at)
\* str.lower()
Lower[s \in STRING] ==
  IF s = "" THEN "" ELSE LowerChar[SubSeq(s, 1, 1)] \o Lower[Tail(s)]

-----------------------------------------------------------------------------
(* organizer.py: names and target paths *)

\* characters of str.strip() that a TLA+ string can spell
Whitespace == {" ", "\t", "\n", "\r", "\f"}
\* INVALID_CHARS = [<>:"/\\|?*\x00-\x1F]
INVALID_CHARS == {"<", ">", ":", "\"", "/", "\\", "|", "?", "*", "\t", "\n", "\r", "\f"}
SIDECAR_EXTENSIONS ==
  {".jpg", ".jpeg", ".png", ".gif", ".bmp", ".webp", ".tif", ".tiff",
   ".nfo", ".cue", ".txt", ".m3u", ".m3u8", ".pdf"}

\* str.lstrip(cs), str.rstrip(cs), str.strip()
LStrip(s, cs) ==
  LET strip[t \in STRING] ==
        IF t # "" /\ SubSeq(t, 1, 1) \in cs THEN strip[Tail(t)] ELSE t
  IN strip[s]
RStrip(s, cs) ==
  LET strip[t \in STRING] ==
        IF t # "" /\ SubSeq(t, Len(t), Len(t)) \in cs
        THEN strip[SubSeq(t, 1, Len(t) - 1)] ELSE t
  IN strip[s]
Strip(s) == RStrip(LStrip(s, Whitespace), Whitespace)

\* INVALID_CHARS.sub("_", s)
SubInvalid[s \in STRING] ==
  IF s = "" THEN ""
  ELSE (IF SubSeq(s, 1, 1) \in INVALID_CHARS THEN "_" ELSE SubSeq(s, 1, 1))
       \o SubInvalid[Tail(s)]

\* a sanitizer that replaces the characters but strips nothing
sanitize_unstripped(value) ==
  LET v == SubInvalid[value]
  IN IF v # "" THEN v ELSE "Unknown"

sanitize_name(value) ==
  LET v == SubInvalid[RStrip(Strip(value), {"."})]
  IN IF v # "" THEN v ELSE "Unknown"

\* a target whose file name is sanitized like the directory names
target_path_sanitized(record, dest) ==
  dest \o << sanitize_name(record.artist),
             sanitize_name(IF record.album # "" THEN record.album ELSE "Miscellaneous"),
             sanitize_name(Name(record.file_path)) >>

target_path_for(record, dest) ==
  dest \o << sanitize_name(record.artist),
             sanitize_name(IF record.album # "" THEN record.album ELSE "Miscellaneous"),
             Name(record.file_path) >>

\* Path.exists() on the tree (f, d)
Exists(f, d, p) == p \in DOMAIN f \/ p \in d

\* a probe that takes the first numbered name without looking at the disk
ProbeOnce(f, d, path, counter) ==
  Append(Parent(path),
    Stem(Name(path)) \o " (" \o ToString(counter) \o ")" \o Suffix(Name(path)))

\* a probe that jumps past as many numbers as there are files on disk
ProbePast(f, d, path, counter) ==
  Append(Parent(path),
    Stem(Name(path)) \o " (" \o ToString(counter + Cardinality(DOMAIN f)) \o ")"
      \o Suffix(Name(path)))

\* while True: candidate = path.with_name(f"{stem} ({counter}){suffix}") ...
Probe(f, d, path, counter) ==
  LET stem == Stem(Name(path))
      suffix == Suffix(Name(path))
      probe[k \in Nat] ==
        LET candidate == Append(Parent(path),
                           stem \o " (" \o ToString(k) \o ")" \o suffix)
        IN IF ~Exists(f, d, candidate) THEN candidate ELSE probe[k + 1]
  IN probe[counter]

\* a target taken as it is, whatever is on disk
_colliding_path(f, d, path) == path

_non_colliding_path(f, d, path) ==
  IF ~Exists(f, d, path) THEN path ELSE Probe(f, d, path, 1)

-----------------------------------------------------------------------------
(* The filesystem calls the organizer makes.  Each returns the new tree    *)
(* and the name of the exception raised ("" when none).                    *)

Put(f, p, c) == [q \in DOMAIN f \cup {p} |-> IF q = p THEN c ELSE f[q]]
Remove(f, p) == [q \in DOMAIN f \ {p} |-> f[q]]

\* the deepest existing directory on the way to p
DeepestDir(d, p) ==
  CHOOSE q \in Prefixes(p) \cap d :
    \A q2 \in Prefixes(p) \cap d : Len(q2) <= Len(q)

\* Path.mkdir(parents=True, exist_ok=True)
Mkdir(f, d, ro, p) ==
  IF p \in d THEN [dirs |-> d, exc |-> ""]
  ELSE IF p \in DOMAIN f THEN [dirs |-> d, exc |-> "FileExistsError"]
  ELSE IF \E q \in Prefixes(p) : q \in DOMAIN f
       THEN [dirs |-> d, exc |-> "NotADirectoryError"]
  ELSE IF DeepestDir(d, p) \in ro THEN [dirs |-> d, exc |-> "PermissionError"]
  ELSE [dirs |-> d \cup Prefixes(p), exc |-> ""]

\* why an entry cannot be created at p, "" when it can
CreateError(f, d, ro, p) ==
  IF Parent(p) \in d
  THEN (IF Parent(p) \in ro THEN "PermissionError" ELSE "")
  ELSE IF \E q \in Prefixes(p) : q \in DOMAIN f THEN "NotADirectoryError"
  ELSE "FileNotFoundError"

\* shutil.move(src, dst) for a regular file src: os.rename, and when the
\* rename is refused, copy to the destination followed by os.unlink(src)
shutil_move(f, d, ro, src, dst) ==
  LET real_dst == IF dst \in d THEN Append(dst, Name(src)) ELSE dst IN
  IF src \notin DOMAIN f THEN [files |-> f, exc |-> "FileNotFoundError"]
  ELSE IF dst \in d /\ Exists(f, d, real_dst) THEN [files |-> f, exc |-> "Error"]
  ELSE IF CreateError(f, d, ro, real_dst) # ""
       THEN [files |-> f, exc |-> CreateError(f, d, ro, real_dst)]
  ELSE IF Parent(src) \in ro
       THEN [files |-> Put(f, real_dst, f[src]), exc |-> "PermissionError"]
  ELSE [files |-> Put(Remove(f, src), real_dst, f[src]), exc |-> ""]

\* a copy that takes the file away from its source
copy_and_remove(f, d, ro, src, dst) == shutil_move(f, d, ro, src, dst)

\* shutil.copy2(src, dst)
shutil_copy2(f, d, ro, src, dst) ==
  LET real_dst == IF dst \in d THEN Append(dst, Name(src)) ELSE dst IN
  IF src \notin DOMAIN f THEN [files |-> f, exc |-> "FileNotFoundError"]
  ELSE IF real_dst = src THEN [files |-> f, exc |-> "SameFileError"]
  ELSE IF real_dst \in d THEN [files |-> f, exc |-> "IsADirectoryError"]
  ELSE IF CreateError(f, d, ro, real_dst) # "" /\ real_dst \notin DOMAIN f
       THEN [files |-> f, exc |-> CreateError(f, d, ro, real_dst)]
  ELSE [files |-> Put(f, real_dst, f[src]), exc |-> ""]

\* the exception classes that derive from OSError
OSErrors ==
  {"FileNotFoundError", "NotADirectoryError", "PermissionError", "FileExistsError",
   "IsADirectoryError", "Error", "SameFileError", "OSError"}

\* an except clause that names the path errors alone
CaughtPathErrors(exc) == exc \in {"FileNotFoundError", "NotADirectoryError"}

\* except (FileNotFoundError, NotADirectoryError, PermissionError, OSError)
Caught(exc) ==
  exc \in {"FileNotFoundError", "NotADirectoryError", "PermissionError"} \/ exc \in OSErrors

-----------------------------------------------------------------------------
(* Ordered dictionaries (dict keeps insertion order): <<[k, v], ...>> *)

DictHas(m, key) == \E i \in 1..Len(m) : m[i].k = key
DictGet(m, key) == m[CHOOSE i \in 1..Len(m) : m[i].k = key].v
DictSet(m, key, val) ==
  IF DictHas(m, key)
  THEN [i \in 1..Len(m) |-> IF m[i].k = key THEN [k |-> key, v |-> val] ELSE m[i]]
  ELSE Append(m, [k |-> key, v |-> val])
DictKeys(m) == { m[i].k : i \in 1..Len(m) }

\* source_to_dest_candidates[src][dst] += 1
Vote(c, src, dst) ==
  LET tally == IF DictHas(c, src) THEN DictGet(c, src) ELSE <<>>
      n == IF DictHas(tally, dst) THEN DictGet(tally, dst) ELSE 0
  IN DictSet(c, src, DictSet(tally, dst, n + 1))

\* a maximum that keeps the last maximal item
LastMaxVote(tally) ==
  tally[CHOOSE i \in 1..Len(tally) :
          /\ \A j \in 1..Len(tally) : tally[j].v <= tally[i].v
          /\ \A j \in (i + 1)..Len(tally) : tally[j].v < tally[i].v].k

\* max(counts.items(), key=lambda item: item[1])[0]: the first maximal item
MaxVote(tally) ==
  tally[CHOOSE i \in 1..Len(tally) :
          /\ \A j \in 1..Len(tally) : tally[j].v <= tally[i].v
          /\ \A j \in 1..(i - 1) : tally[j].v < tally[i].v].k

RECURSIVE Collapse(_)
Collapse(c) ==
  IF c = <<>> THEN <<>>
  ELSE IF Head(c).v = <<>> THEN Collapse(Tail(c))
  ELSE <<[k |-> Head(c).k, v |-> MaxVote(Head(c).v)]>> \o Collapse(Tail(c))

-----------------------------------------------------------------------------
(* organizer.py: sidecar helpers *)

AUDIO_EXTENSIONS ==
  {".mp3", ".flac", ".wav", ".m4a", ".aac", ".ogg", ".opus", ".wma", ".aiff", ".alac"}

is_audio_file(f, path) ==
  IF StartsWith(Name(path), "._") THEN FALSE
  ELSE path \in DOMAIN f /\ Lower[Suffix(Name(path))] \in AUDIO_EXTENSIONS

\* a classifier that takes every regular file
_is_regular_file(f, path) == path \in DOMAIN f

_is_sidecar_file(f, path) ==
  IF path \notin DOMAIN f THEN FALSE
  ELSE IF StartsWith(Name(path), "._") THEN FALSE
  ELSE Lower[Suffix(Name(path))] \in SIDECAR_EXTENSIONS

\* first index at which sub occurs in s, 0 when it does not
Find(s, sub) ==
  LET scan[i \in Nat] ==
        IF i + Len(sub) - 1 > Len(s) THEN 0
        ELSE IF SubSeq(s, i, i + Len(sub) - 1) = sub THEN i
        ELSE scan[i + 1]
  IN scan[1]

\* start of the leftmost "(...)" or "[...]" group that closes at position j
GroupStart(s, open, close, i) ==
  LET scan[k \in Nat] ==
        IF k = 0 THEN 0
        ELSE IF SubSeq(s, k, k) = close THEN 0
        ELSE IF SubSeq(s, k, k) = open
             THEN (IF scan[k - 1] > 0 THEN scan[k - 1] ELSE k)
             ELSE scan[k - 1]
  IN scan[i]

\* re.sub(r"\s*(\([^)]*\)|\[[^\]]*\])\s*$", "", cleaned).strip()
StripGroup[cleaned \in STRING] ==
  LET t == RStrip(cleaned, Whitespace)
      last == IF t = "" THEN "" ELSE SubSeq(t, Len(t), Len(t))
      g == IF last = ")" THEN GroupStart(t, "(", ")", Len(t) - 1)
           ELSE IF last = "]" THEN GroupStart(t, "[", "]", Len(t) - 1)
           ELSE 0
  IN IF g = 0 THEN Strip(cleaned) ELSE Strip(SubSeq(t, 1, g - 1))

\* while True: updated = ...; if updated == cleaned: return cleaned
CleanLoop[cleaned \in STRING] ==
  IF StripGroup[cleaned] = cleaned THEN cleaned ELSE CleanLoop[StripGroup[cleaned]]

_clean_album_dir_name(value) == CleanLoop[Strip(value)]

\* [found, path]: found = FALSE is None
None == [found |-> FALSE, path |-> <<>>]
Some(p) == [found |-> TRUE, path |-> p]

\* the pattern guess without the check that the directory exists
_guess_unchecked(f, d, source_dir, dest) ==
  LET name == IF source_dir = <<>> THEN "" ELSE Name(source_dir)
      at == Find(name, " - ")
      artist == sanitize_name(SubSeq(name, 1, at - 1))
      album == sanitize_name(_clean_album_dir_name(SubSeq(name, at + 3, Len(name))))
  IN IF at = 0 THEN None ELSE Some(dest \o <<artist, album>>)

_guess_destination_dir(f, d, source_dir, dest) ==
  LET name == IF source_dir = <<>> THEN "" ELSE Name(source_dir)
      at == Find(name, " - ")
      artist == sanitize_name(SubSeq(name, 1, at - 1))
      album == sanitize_name(_clean_album_dir_name(SubSeq(name, at + 3, Len(name))))
      candidate == dest \o <<artist, album>>
  IN IF at = 0 THEN None
     ELSE IF Exists(f, d, candidate) THEN Some(candidate)
     ELSE None

RECURSIVE InferFrom(_, _)
InferFrom(recs, i) ==
  IF i > Len(recs) THEN None
  ELSE LET rel_parts == Parts(recs[i].relative_path)
           n == Len(rel_parts) - 1
           parents == PathParents(recs[i].file_path)
       IN IF rel_parts = <<>> THEN InferFrom(recs, i + 1)
          ELSE IF n < Len(parents) THEN Some(parents[n + 1])
          ELSE InferFrom(recs, i + 1)

\* an inference that looks at the first record and at no other
_infer_first_only(recs) ==
  IF recs = <<>> THEN None ELSE InferFrom(<<recs[1]>>, 1)

_infer_scan_root(recs) == InferFrom(recs, 1)

\* current == destination_root or destination_root in current.parents
InDestinationTree(current, dest) ==
  current = dest \/ \E i \in 1..Len(current) : PathParents(current)[i] = dest

SubDirs(d, p) == { q \in d : Len(q) = Len(p) + 1 /\ Parent(q) = p }
FilesIn(f, p) == { q \in DOMAIN f : Parent(q) = p }
\* the orders in which a listing can yield the members of S
Perms(S) ==
  UNION { { s \in [1..Cardinality(T) -> T] :
              \A i, j \in 1..Cardinality(T) : i # j => s[i] # s[j] } : T \in {S} }

\* a subtree in which the walk loop finds at least one candidate to keep
HoldsCandidates(f, q, dest) ==
  \E c \in DOMAIN f :
    IsUnder(c, q) /\ ~InDestinationTree(Parent(c), dest) /\ _is_sidecar_file(f, c)

\* a subtree in which the walk meets a directory it cannot list or a file
\* it cannot classify
RaisesIn(f, q) ==
  \/ \E u \in unlistable : IsUnder(u, q)
  \/ \E c \in unstatable \cap DOMAIN f : IsUnder(c, q)

\* os.walk(root), top-down: the orders in which the directories can be
\* reached; the order among siblings is the listing order of the platform.
\* A directory that cannot be listed is reached and not descended into.
\* Subtrees without a candidate and without an error add nothing to the
\* result whatever their place in the order, and are left out of it.
RECURSIVE WalkOrders(_, _, _, _)
RECURSIVE WalkEach(_, _, _, _)
WalkOrders(f, d, p, dest) ==
  IF p \in unlistable THEN { <<p>> }
  ELSE
  { <<p>> \o rest :
      rest \in UNION { WalkEach(f, d, subs, dest) :
                         subs \in Perms({ q \in SubDirs(d, p) :
                                            HoldsCandidates(f, q, dest) \/ RaisesIn(f, q) }) } }
WalkEach(f, d, subs, dest) ==
  IF subs = <<>> THEN { <<>> }
  ELSE { a \o b : a \in WalkOrders(f, d, Head(subs), dest),
                  b \in WalkEach(f, d, Tail(subs), dest) }

\* a walk error reported under the name of the root
WalkErrorAtRoot(walk_root, p) ==
  [kind |-> "organize sidecar walk error", subject |-> PathStr(walk_root),
   detail |-> "PermissionError"]

\* _on_walk_error: err.filename is the directory that could not be listed
WalkError(walk_root, p) ==
  [kind |-> "organize sidecar walk error", subject |-> PathStr(p),
   detail |-> "PermissionError"]

\* the warnings of the files, in listing order, whose classification raised
SkippedFiles(listing) ==
  [i \in 1..Len(listing) |->
     [kind |-> "organize sidecar skipped", subject |-> PathStr(listing[i]),
      detail |-> "OSError"]]

\* the body of the walk loop of _collect_sidecar_files, for one order, with
\* the calls of _on_walk_error that os.walk makes on the way
RECURSIVE CollectAlong(_, _, _, _)
CollectAlong(f, order, walk_root, dest) ==
  IF order = <<>> THEN { [map |-> <<>>, warnings |-> <<>>] }
  ELSE LET current == Head(order)
           found == { q \in FilesIn(f, current) \ unstatable : _is_sidecar_file(f, q) }
           failed == FilesIn(f, current) \cap unstatable
       IN IF current \in unlistable
          THEN { [map |-> r.map,
                  warnings |-> <<WalkError(walk_root, current)>> \o r.warnings] :
                   r \in CollectAlong(f, Tail(order), walk_root, dest) }
          ELSE IF InDestinationTree(current, dest) \/ (found = {} /\ failed = {})
          THEN CollectAlong(f, Tail(order), walk_root, dest)
          ELSE { [map |-> (IF found = {} THEN <<>> ELSE <<[k |-> current, v |-> listed]>>)
                            \o r.map,
                  warnings |-> SkippedFiles(raised) \o r.warnings] :
                   listed \in Perms(found), raised \in Perms(failed),
                   r \in CollectAlong(f, Tail(order), walk_root, dest) }

\* _collect_sidecar_files: the possible [map, warnings] results
_collect_sidecar_files(f, d, walk_root, dest) ==
  IF walk_root \notin d
  THEN { [map |-> <<>>,
          warnings |-> <<[kind |-> "organize sidecar walk error",
                          subject |-> PathStr(walk_root),
                          detail |-> IF walk_root \in DOMAIN f THEN "NotADirectoryError"
                                     ELSE "FileNotFoundError"]>>] }
  ELSE UNION { CollectAlong(f, order, walk_root, dest) :
                 order \in WalkOrders(f, d, walk_root, dest) }

\* src_dir.iterdir() up to the first file whose classification raises
ListedBefore(f, listing) ==
  LET stop == IF \E i \in 1..Len(listing) : listing[i] \in unstatable
              THEN CHOOSE i \in 1..Len(listing) :
                     /\ listing[i] \in unstatable
                     /\ \A j \in 1..(i - 1) : listing[j] \notin unstatable
              ELSE Len(listing) + 1
  IN SelectSeq(SubSeq(listing, 1, stop - 1), LAMBDA q : _is_sidecar_file(f, q))

\* the flat listing of organize_files, used when no scan root is inferred
RECURSIVE FlatListing(_, _, _)
FlatListing(f, d, s2d) ==
  IF s2d = <<>> THEN { [map |-> <<>>, warnings |-> <<>>] }
  ELSE LET src_dir == Head(s2d).k
           found == { q \in FilesIn(f, src_dir) : _is_sidecar_file(f, q) }
           skipped_dir(exc) == <<[kind |-> "organize sidecar directory skipped",
                                  subject |-> PathStr(src_dir), detail |-> exc]>>
           kept(listed) == IF listed = <<>> THEN <<>>
                           ELSE <<[k |-> src_dir, v |-> listed]>>
           here == IF src_dir \notin d
                   THEN { [map |-> <<>>,
                           warnings |-> skipped_dir(IF src_dir \in DOMAIN f
                                                    THEN "NotADirectoryError"
                                                    ELSE "FileNotFoundError")] }
                   ELSE IF src_dir \in unlistable
                   THEN { [map |-> <<>>, warnings |-> skipped_dir("PermissionError")] }
                   ELSE IF FilesIn(f, src_dir) \cap unstatable # {}
                   THEN { [map |-> kept(ListedBefore(f, listing)),
                           warnings |-> skipped_dir("OSError")] :
                            listing \in Perms(FilesIn(f, src_dir)) }
                   ELSE IF found = {} THEN { [map |-> <<>>, warnings |-> <<>>] }
                   ELSE { [map |-> <<[k |-> src_dir, v |-> listed]>>, warnings |-> <<>>] :
                            listed \in Perms(found) }
       IN { [map |-> a.map \o b.map, warnings |-> a.warnings \o b.warnings] :
              a \in here, b \in FlatListing(f, d, Tail(s2d)) }

-----------------------------------------------------------------------------
(* The trees and record lists the engine is run on *)

ScanRoot == <<"m">>
DestRoots == { <<"out">>, <<"m">>, <<"m", "out">> }

F1 == <<"m", "x", "a.mp3">>
F2 == <<"m", "A - B [X]", "a.mp3">>
S1 == <<"m", "x", "c.jpg">>
S2 == <<"m", "A - B [X]", "c.JPG">>
D3(dest) == dest \o <<"A", "B", "a.mp3">>
D6(dest) == dest \o <<"A", "B", "c.jpg">>
DZ(dest) == dest \o <<"Z">>

SourceTree == (F1 :> 1) @@ (F2 :> 2) @@ (S1 :> 4) @@ (S2 :> 5)
DirsOf(f) == UNION { Prefixes(Parent(p)) : p \in DOMAIN f } \cup { <<>>, ScanRoot }
Tree(f, more, ro) == [files |-> f, dirs |-> DirsOf(f) \cup more, readonly |-> ro]

Trees(dest) ==
  { Tree(SourceTree, {}, {}),
    Tree(SourceTree @@ (D3(dest) :> 3) @@ (D6(dest) :> 6), {}, {}),
    Tree((F1 :> 1) @@ (S1 :> 4) @@ (DZ(dest) :> 7), {}, {}),
    Tree((F2 :> 2) @@ (S2 :> 5) @@ (D3(dest) :> 3), {}, {}),
    Tree(SourceTree, Prefixes(dest \o <<"A", "B">>), {dest}),
    Tree(SourceTree, Prefixes(dest), {<<"m", "x">>}) }

\* relative_path of a file as scan_music writes it
RECURSIVE RelStr(_)
RelStr(p) ==
  IF Len(p) = 1 THEN p[1] ELSE RelStr(Parent(p)) \o "/" \o Name(p)
RelativeTo(p, top) ==
  IF IsUnder(p, top) THEN RelStr(SubSeq(p, Len(top) + 1, Len(p)))
  ELSE RelStr(SubSeq(p, 2, Len(p)))

Track(path, rel, artist, album) ==
  [file_path |-> path, relative_path |-> rel, artist |-> artist, album |-> album]

TrackRecords(dest) ==
  { Track(F1, RelativeTo(F1, ScanRoot), "A", "B"),
    Track(F2, RelativeTo(F2, ScanRoot), " A.", "B"),
    Track(F1, RelativeTo(F1, ScanRoot), "Z", ""),
    Track(D3(dest), RelativeTo(D3(dest), ScanRoot), "A", "B"),
    Track(D3(dest), "", "Z", "B") }

\* the record lists a caller hands over: as scan_music lists them, no file
\* is listed twice
RecordLists(dest) ==
  { l \in UNION { [1..n -> TrackRecords(dest)] : n \in 0..MaxRecords } :
      \A i, j \in 1..Len(l) : l[i].file_path = l[j].file_path => i = j }

\* record lists handed over as they are: no file was read, no lookup made
NoTags == <<>>
NotEnriched ==
  [checked |-> 0, updated |-> 0, unmatched |-> 0, tags_written |-> 0, ran |-> FALSE]

NoResult ==
  [entry |-> "none", dry_run |-> FALSE, moved |-> 0, skipped |-> 0,
   sidecar_moved |-> 0, warnings |-> <<>>, outcome |-> <<>>]

Start ==
  /\ destination_root \in DestRoots
  /\ \E t \in Trees(destination_root) :
       files = t.files /\ dirs = t.dirs /\ readonly = t.readonly
  /\ entry \in {"organize_files", "organize_sidecar_files"}
  /\ records \in (IF entry = "organize_files" THEN RecordLists(destination_root)
                  ELSE { <<>> })
  /\ copy_instead_of_move \in BOOLEAN
  /\ dry_run = TRUE
  /\ pc = "idle" /\ idx = 0
  /\ moved = 0 /\ skipped = 0 /\ sidecar_moved = 0 /\ warnings = <<>>
  /\ source_to_dest_candidates = <<>> /\ source_to_dest = <<>>
  /\ sidecar_files_by_dir = <<>> /\ sdir = 1 /\ sfile = 1 /\ dest_dir = <<>>
  /\ runs = 0 /\ files0 = files /\ dirs0 = dirs /\ dirs1 = dirs
  /\ outcome = <<>> /\ sidecar_log = <<>> /\ prev = NoResult /\ files_done = 0
  /\ tags = NoTags /\ scan_warnings = <<>> /\ enriched = NotEnriched
  /\ calls = <<>>
  /\ unlistable = {} /\ unstatable = {}

\* the command line always gives a progress printer
Init == Start /\ progress_callback = TRUE

-----------------------------------------------------------------------------
(* organize_files and organize_sidecar_files *)

Result ==
  [entry |-> entry, dry_run |-> dry_run, moved |-> moved, skipped |-> skipped,
   sidecar_moved |-> sidecar_moved, warnings |-> warnings, outcome |-> outcome]

Environment == <<readonly, records, destination_root, copy_instead_of_move, entry,
                 tags, scan_warnings, enriched, unlistable, unstatable,
                 progress_callback>>

\* a callback that is never invoked
ReportNothing(given, pairs) == calls

\* if progress_callback: progress_callback(completed, total), for each pair
Report(given, pairs) == IF given THEN calls \o pairs ELSE calls
\* organize_files hands its callback to the record loop only;
\* organize_sidecar_files hands it to _move_sidecar_candidates
InRecordLoop == progress_callback /\ entry = "organize_files"
InSidecarLoop == progress_callback /\ entry = "organize_sidecar_files"
\* a total that counts the directories, not their files
dirs_total(by_dir) == Len(by_dir)

\* files_total of _move_sidecar_candidates
RECURSIVE files_total(_)
files_total(by_dir) ==
  IF by_dir = <<>> THEN 0 ELSE Len(Head(by_dir).v) + files_total(Tail(by_dir))

\* the locals a call starts with
Begin(name, dry, at) ==
  /\ runs < MaxRuns
  /\ entry = name /\ dry_run' = dry /\ pc' = at
  /\ idx' = 0 /\ moved' = 0 /\ skipped' = 0 /\ sidecar_moved' = 0 /\ warnings' = <<>>
  /\ source_to_dest_candidates' = <<>> /\ source_to_dest' = <<>>
  /\ sidecar_files_by_dir' = <<>> /\ sdir' = 1 /\ sfile' = 1 /\ dest_dir' = <<>>
  /\ runs' = runs + 1 /\ files0' = files /\ dirs0' = dirs /\ dirs1' = dirs
  /\ outcome' = <<>> /\ sidecar_log' = <<>> /\ files_done' = 0
  /\ calls' = IF progress_callback /\ name = "organize_files"
              THEN << <<0, Len(records)>> >> ELSE <<>>
  /\ UNCHANGED <<files, dirs, Environment>>

\* a call made before any other, or after one that returned
Enter(name, dry, at) ==
  /\ pc \in {"idle", "done"}
  /\ Begin(name, dry, at)
  /\ prev' = IF pc = "done" THEN Result ELSE prev

\* the caller previews or applies; a later call on the same tree applies
DryRunChoices == IF runs = 0 THEN BOOLEAN ELSE { FALSE }

CallOrganizeFiles ==
  \E dry \in DryRunChoices : Enter("organize_files", dry, "primary")

CallOrganizeSidecarFiles ==
  \E dry \in DryRunChoices : Enter("organize_sidecar_files", dry, "collect")

\* a comparison that never finds a record in place
NeverSamePath(source_path, target) == FALSE

\* source_path.resolve() == target.resolve(), on a tree without links
SamePath(source_path, target) == source_path = target

\* a warning that says what failed and not where
WarningUnnamed(kind, subject, detail) == [kind |-> kind, subject |-> "", detail |-> detail]

Warning(kind, subject, detail) == [kind |-> kind, subject |-> subject, detail |-> detail]

\* a transfer whose failure is not raised
TransferQuiet(f, d, ro, src, dst) ==
  [files |-> IF dry_run THEN f
             ELSE IF copy_instead_of_move THEN shutil_copy2(f, d, ro, src, dst).files
             ELSE shutil_move(f, d, ro, src, dst).files,
   exc |-> ""]

\* shutil.copy2 or shutil.move, or nothing in a dry run
Transfer(f, d, ro, src, dst) ==
  IF dry_run THEN [files |-> f, exc |-> ""]
  ELSE IF copy_instead_of_move THEN shutil_copy2(f, d, ro, src, dst)
  ELSE shutil_move(f, d, ro, src, dst)

\* a warning that always names the absolute path
AbsoluteSubject(record) == PathStr(record.file_path)

\* rel = record.relative_path or str(record.file_path)
WarningSubject(record) ==
  IF record.relative_path # "" THEN record.relative_path
  ELSE PathStr(record.file_path)

\* one iteration of "for idx, record in enumerate(records, start=1)"
ProcessRecord ==
  /\ pc = "primary" /\ idx < Len(records)
  /\ LET record == records[idx + 1]
         source_path == record.file_path
     IN \E target \in { target_path_for(record, destination_root) } :
        \E mk \in { Mkdir(files, dirs, readonly, Parent(target)) } :
        \E final_target \in { _non_colliding_path(files, mk.dirs, target) } :
        \E tr \in { Transfer(files, mk.dirs, readonly, source_path, final_target) } :
          LET same_path == SamePath(source_path, target)
              exc == IF same_path THEN "" ELSE IF mk.exc # "" THEN mk.exc ELSE tr.exc
              rel == WarningSubject(record)
              kind == IF same_path THEN "skipped"
                      ELSE IF mk.exc # "" THEN "mkdir failed"
                      ELSE IF tr.exc # "" THEN "transfer failed" ELSE "moved"
          IN /\ dirs' = IF same_path THEN dirs ELSE mk.dirs
             /\ files' = IF same_path \/ mk.exc # "" THEN files ELSE tr.files
             /\ skipped' = IF same_path THEN skipped + 1 ELSE skipped
             /\ moved' = IF kind = "moved" THEN moved + 1 ELSE moved
             /\ source_to_dest_candidates' =
                  IF kind = "moved"
                  THEN Vote(source_to_dest_candidates, Parent(source_path),
                            Parent(final_target))
                  ELSE source_to_dest_candidates
             /\ warnings' = IF exc # "" /\ Caught(exc)
                            THEN Append(warnings, Warning("organize skipped", rel, exc))
                            ELSE warnings
             /\ pc' = IF exc # "" /\ ~Caught(exc) THEN "raised" ELSE "primary"
             /\ outcome' = Append(outcome,
                             [kind |-> kind, exc |-> exc,
                              target |-> IF same_path \/ mk.exc # "" THEN <<>>
                                         ELSE final_target,
                              content |-> IF kind = "moved" /\ source_path \in DOMAIN files
                                          THEN files[source_path] ELSE 0])
  /\ idx' = idx + 1
  /\ calls' = Report(InRecordLoop, << <<idx + 1, Len(records)>> >>)
  /\ UNCHANGED <<Environment, dry_run, sidecar_moved, source_to_dest,
                 sidecar_files_by_dir, sdir, sfile, dest_dir, runs, files0, dirs0,
                 dirs1, sidecar_log, prev, files_done>>

\* after the loop: the votes collapse into source_to_dest
CollapseVotes ==
  /\ pc = "primary" /\ idx = Len(records)
  /\ source_to_dest' = Collapse(source_to_dest_candidates)
  /\ pc' = "collect"
  /\ UNCHANGED <<files, dirs, Environment, dry_run, idx, moved, skipped,
                 sidecar_moved, warnings, source_to_dest_candidates,
                 sidecar_files_by_dir, sdir, sfile, dest_dir, runs, files0, dirs0,
                 dirs1, outcome, sidecar_log, prev, calls, files_done>>

\* the sidecar candidates: a walk of the root (given, or inferred from the
\* records), or the flat listing of the mapped source directories
CollectSidecars ==
  /\ pc = "collect"
  /\ LET inferred_root == IF entry = "organize_sidecar_files" THEN Some(ScanRoot)
                          ELSE _infer_scan_root(records)
     IN \E r \in (IF inferred_root.found
                  THEN _collect_sidecar_files(files, dirs, inferred_root.path,
                                              destination_root)
                  ELSE FlatListing(files, dirs, source_to_dest)) :
          /\ sidecar_files_by_dir' = r.map
          /\ warnings' = warnings \o r.warnings
          /\ calls' = Report(InSidecarLoop, << <<0, files_total(r.map)>> >>)
  /\ pc' = "sidecar dir" /\ sdir' = 1 /\ sfile' = 1 /\ files_done' = 0
  /\ dirs1' = dirs
  /\ UNCHANGED <<files, dirs, Environment, dry_run, idx, moved, skipped,
                 sidecar_moved, source_to_dest_candidates, source_to_dest, dest_dir,
                 runs, files0, dirs0, outcome, sidecar_log, prev>>

\* a resolution that never consults the map
GuessOnly(f, d, s2d, src_dir, dest) == _guess_destination_dir(f, d, src_dir, dest)

\* source_to_dest.get(src_dir) or _guess_destination_dir(src_dir, destination_root)
ResolveDestination(f, d, s2d, src_dir, dest) ==
  IF DictHas(s2d, src_dir) THEN Some(DictGet(s2d, src_dir))
  ELSE _guess_destination_dir(f, d, src_dir, dest)

\* the head of one iteration of "for src_dir, files in sidecar_files_by_dir.items()"
SidecarDirectory ==
  /\ pc = "sidecar dir" /\ sdir <= Len(sidecar_files_by_dir)
  /\ LET src_dir == sidecar_files_by_dir[sdir].k
         listed == sidecar_files_by_dir[sdir].v
         total == files_total(sidecar_files_by_dir)
     IN \E found \in { ResolveDestination(files, dirs, source_to_dest, src_dir,
                                          destination_root) } :
        \E mk \in { Mkdir(files, dirs, readonly, found.path) } :
        IF ~found.found
        THEN /\ warnings' = Append(warnings,
                              Warning("organize sidecar directory unmapped", PathStr(src_dir), ""))
             /\ sdir' = sdir + 1 /\ pc' = pc
             /\ files_done' = files_done + Len(listed)
             /\ calls' = Report(InSidecarLoop, << <<files_done', total>> >>)
             /\ UNCHANGED <<dirs, dest_dir>>
        ELSE IF mk.exc # ""
        THEN /\ warnings' = IF Caught(mk.exc)
                            THEN Append(warnings,
                                   Warning("organize sidecar destination skipped",
                                           PathStr(found.path), mk.exc))
                            ELSE warnings
             /\ pc' = IF Caught(mk.exc) THEN pc ELSE "raised"
             /\ sdir' = sdir + 1
             /\ files_done' = IF Caught(mk.exc) THEN files_done + Len(listed)
                              ELSE files_done
             /\ calls' = Report(InSidecarLoop /\ Caught(mk.exc),
                                << <<files_done', total>> >>)
             /\ UNCHANGED <<dirs, dest_dir>>
        ELSE /\ dirs' = mk.dirs /\ dest_dir' = found.path
             /\ pc' = "sidecar file"
             /\ UNCHANGED <<warnings, sdir, calls, files_done>>
  /\ sfile' = 1
  /\ UNCHANGED <<files, Environment, dry_run, idx, moved, skipped, sidecar_moved,
                 source_to_dest_candidates, source_to_dest, sidecar_files_by_dir,
                 runs, files0, dirs0, dirs1, outcome, sidecar_log, prev>>

\* one iteration of "for candidate in files"
SidecarFile ==
  /\ pc = "sidecar file"
  /\ LET listed == sidecar_files_by_dir[sdir].v
         candidate == listed[sfile]
         last == sfile = Len(listed)
     IN \E target \in { _non_colliding_path(files, dirs,
                                            Append(dest_dir, Name(candidate))) } :
        \E tr \in { Transfer(files, dirs, readonly, candidate, target) } :
        /\ files' = tr.files
        /\ sidecar_moved' = IF tr.exc = "" THEN sidecar_moved + 1 ELSE sidecar_moved
        /\ warnings' = IF tr.exc # "" /\ Caught(tr.exc)
                       THEN Append(warnings,
                              Warning("organize sidecar skipped", PathStr(candidate), tr.exc))
                       ELSE warnings
        /\ sidecar_log' = IF tr.exc = ""
                          THEN Append(sidecar_log, [src |-> candidate, dst |-> target])
                          ELSE sidecar_log
        /\ pc' = IF tr.exc # "" /\ ~Caught(tr.exc) THEN "raised"
                 ELSE IF last THEN "sidecar dir" ELSE pc
        /\ sfile' = IF last THEN 1 ELSE sfile + 1
        /\ sdir' = IF last THEN sdir + 1 ELSE sdir
        /\ files_done' = files_done + 1
        /\ calls' = Report(InSidecarLoop,
                           << <<files_done', files_total(sidecar_files_by_dir)>> >>)
  /\ UNCHANGED <<dirs, Environment, dry_run, idx, moved, skipped,
                 source_to_dest_candidates, source_to_dest, sidecar_files_by_dir,
                 dest_dir, runs, files0, dirs0, dirs1, outcome, prev>>

\* return OrganizeResult(...)
Return ==
  /\ pc = "sidecar dir" /\ sdir > Len(sidecar_files_by_dir)
  /\ pc' = "done"
  /\ UNCHANGED <<files, dirs, Environment, dry_run, idx, moved, skipped,
                 sidecar_moved, warnings, source_to_dest_candidates, source_to_dest,
                 sidecar_files_by_dir, sdir, sfile, dest_dir, runs, files0, dirs0,
                 dirs1, outcome, sidecar_log, prev, calls, files_done>>

\* the process is stopped in the loop over the records of an apply run
\* (KeyboardInterrupt is no Exception the loop catches), between two records
Interrupt ==
  /\ pc = "primary" /\ entry = "organize_files" /\ ~dry_run
  /\ pc' = "interrupted"
  /\ UNCHANGED <<files, dirs, Environment, dry_run, idx, moved, skipped,
                 sidecar_moved, warnings, source_to_dest_candidates, source_to_dest,
                 sidecar_files_by_dir, sdir, sfile, dest_dir, runs, files0, dirs0,
                 dirs1, outcome, sidecar_log, prev, calls, files_done>>

\* organize_files is called again, in apply mode, on the same record list;
\* prev keeps what the stopped call had done and the tree it had started on
RetryOrganizeFiles ==
  /\ pc = "interrupted"
  /\ Begin("organize_files", FALSE, "primary")
  /\ prev' = [interrupted |-> TRUE, files0 |-> files0] @@ Result

Next ==
  \/ CallOrganizeFiles
  \/ CallOrganizeSidecarFiles
  \/ ProcessRecord
  \/ CollapseVotes
  \/ CollectSidecars
  \/ SidecarDirectory
  \/ SidecarFile
  \/ Return

Spec == Init /\ [][Next]_vars

\* the entry points called from other code, with or without a callback
CallbackInit == Start /\ progress_callback \in BOOLEAN
CallbackSpec == CallbackInit /\ [][Next]_vars

\* trees in which a source directory cannot be listed, or holds a file whose
\* stat fails; such a file is no record and no target of any record
AlbumDir == <<"m", "A - B [X]">>
BadFile == Append(AlbumDir, "bad.jpg")
WalkInit ==
  /\ destination_root = <<"out">>
  /\ unlistable \in SUBSET {<<"m", "x">>, AlbumDir}
  /\ \E bad \in SUBSET {BadFile}, there \in SUBSET {D3(destination_root)} :
       /\ unstatable = bad
       /\ \E t \in { Tree(SourceTree @@ [p \in bad |-> 8] @@ [p \in there |-> 3], {}, {}) } :
            files = t.files /\ dirs = t.dirs /\ readonly = t.readonly
  /\ entry \in {"organize_files", "organize_sidecar_files"}
  /\ records \in (IF entry = "organize_files"
                  THEN { l \in RecordLists(destination_root) :
                           \A i \in 1..Len(l) : l[i].file_path \in {F1, F2} }
                  ELSE { <<>> })
  /\ copy_instead_of_move \in BOOLEAN
  /\ dry_run = TRUE
  /\ pc = "idle" /\ idx = 0
  /\ moved = 0 /\ skipped = 0 /\ sidecar_moved = 0 /\ warnings = <<>>
  /\ source_to_dest_candidates = <<>> /\ source_to_dest = <<>>
  /\ sidecar_files_by_dir = <<>> /\ sdir = 1 /\ sfile = 1 /\ dest_dir = <<>>
  /\ runs = 0 /\ files0 = files /\ dirs0 = dirs /\ dirs1 = dirs
  /\ outcome = <<>> /\ sidecar_log = <<>> /\ prev = NoResult /\ files_done = 0
  /\ tags = NoTags /\ scan_warnings = <<>> /\ enriched = NotEnriched
  /\ progress_callback = TRUE /\ calls = <<>>

WalkSpec == WalkInit /\ [][Next]_vars

\* trees in which an album directory holds two sidecar files and may refuse
\* to give up its entries, and in which the place of its destination
\* directory may be taken by a regular file
Notes == Append(AlbumDir, "n.txt")
AlbumTarget == <<"out", "A", "B">>
SidecarTrees ==
  { Tree(SourceTree @@ (Notes :> 8), Prefixes(AlbumTarget), ro) : ro \in SUBSET {AlbumDir} }
    \cup { Tree(SourceTree @@ (Notes :> 8) @@ (AlbumTarget :> 3), {}, {}) }
SidecarInit ==
  /\ destination_root = <<"out">>
  /\ unlistable = {} /\ unstatable = {}
  /\ \E t \in SidecarTrees :
       files = t.files /\ dirs = t.dirs /\ readonly = t.readonly
  /\ entry \in {"organize_files", "organize_sidecar_files"}
  /\ records \in (IF entry = "organize_files"
                  THEN { l \in RecordLists(destination_root) :
                           \A i \in 1..Len(l) : l[i].file_path \in {F1, F2} }
                  ELSE { <<>> })
  /\ copy_instead_of_move \in BOOLEAN
  /\ dry_run = TRUE
  /\ pc = "idle" /\ idx = 0
  /\ moved = 0 /\ skipped = 0 /\ sidecar_moved = 0 /\ warnings = <<>>
  /\ source_to_dest_candidates = <<>> /\ source_to_dest = <<>>
  /\ sidecar_files_by_dir = <<>> /\ sdir = 1 /\ sfile = 1 /\ dest_dir = <<>>
  /\ runs = 0 /\ files0 = files /\ dirs0 = dirs /\ dirs1 = dirs
  /\ outcome = <<>> /\ sidecar_log = <<>> /\ prev = NoResult /\ files_done = 0
  /\ tags = NoTags /\ scan_warnings = <<>> /\ enriched = NotEnriched
  /\ progress_callback = TRUE /\ calls = <<>>

SidecarSpec == SidecarInit /\ [][Next]_vars

-----------------------------------------------------------------------------
(* scan_music and enrich_with_musicbrainz: where the records of            *)
(* organize_files come from when the command line runs the engine          *)

\* a normalisation that trims and keeps an empty value
stripped_only(value) == Strip(value)

\* normalized_artist, normalized_album
normalized_artist(value) ==
  LET v == Strip(value) IN IF v # "" THEN v ELSE "Unknown Artist"
normalized_album(value) ==
  LET v == Strip(value) IN IF v # "" THEN v ELSE "Miscellaneous"

\* read_audio_info: _tag_value trims what it finds, and gives "" for a file
\* without tags or one that cannot be parsed
read_audio_info(path) ==
  IF path \in DOMAIN tags
  THEN [artist |-> Strip(tags[path].artist), album |-> Strip(tags[path].album)]
  ELSE [artist |-> "", album |-> ""]

ScanWarning(kind, path, exc) == [kind |-> kind, subject |-> PathStr(path), detail |-> exc]

\* is_audio_file(path) raises: the name is looked at first, then the file
RaisesOnStat(path) == path \in unstatable /\ ~StartsWith(Name(path), "._")

\* the first loop of scan_music: os.walk(root), top-down, in the listing
\* orders of the platform; files that are neither audio nor in error, and
\* subtrees without any such file, add nothing and are left out of the orders
RECURSIVE ScanWalk(_, _, _)
RECURSIVE ScanEach(_, _, _)
ScanWalk(f, d, p) ==
  IF p \in unlistable
  THEN { [candidates |-> <<>>,
          warnings |-> <<ScanWarning("walk error", p, "PermissionError")>>] }
  ELSE LET seen == { q \in FilesIn(f, p) :
                       RaisesOnStat(q) \/ (q \notin unstatable /\ is_audio_file(f, q)) }
           below == { q \in SubDirs(d, p) :
                        \/ \E c \in DOMAIN f :
                             IsUnder(c, q) /\ (c \in unstatable \/ is_audio_file(f, c))
                        \/ \E u \in unlistable : IsUnder(u, q) }
       IN { [candidates |-> SelectSeq(listing, LAMBDA q : ~RaisesOnStat(q)) \o r.candidates,
             warnings |->
               [i \in 1..Len(SelectSeq(listing, RaisesOnStat)) |->
                  ScanWarning("file skipped", SelectSeq(listing, RaisesOnStat)[i], "OSError")]
               \o r.warnings] :
              listing \in Perms(seen),
              r \in UNION { ScanEach(f, d, subs) : subs \in Perms(below) } }
ScanEach(f, d, subs) ==
  IF subs = <<>> THEN { [candidates |-> <<>>, warnings |-> <<>>] }
  ELSE { [candidates |-> a.candidates \o b.candidates,
          warnings |-> a.warnings \o b.warnings] :
           a \in ScanWalk(f, d, Head(subs)), b \in ScanEach(f, d, Tail(subs)) }

\* records.append(TrackRecord(...)) for one candidate
Scanned(path, root) ==
  LET metadata == read_audio_info(path)
  IN Track(path, RelativeTo(path, root),
           normalized_artist(metadata.artist), normalized_album(metadata.album))

\* scan_music(root)
ScanMusic ==
  /\ pc = "unscanned"
  /\ \E w \in ScanWalk(files, dirs, ScanRoot) :
       /\ records' = [i \in 1..Len(w.candidates) |-> Scanned(w.candidates[i], ScanRoot)]
       /\ scan_warnings' = w.warnings
  /\ pc' = "idle"
  /\ UNCHANGED <<files, dirs, readonly, destination_root, copy_instead_of_move, entry,
                 dry_run, idx, moved, skipped, sidecar_moved, warnings,
                 source_to_dest_candidates, source_to_dest, sidecar_files_by_dir,
                 sdir, sfile, dest_dir, runs, files0, dirs0, dirs1, outcome,
                 sidecar_log, prev, tags, enriched, unlistable, unstatable,
                 progress_callback, calls, files_done>>

\* _needs_enrichment(record, missing_only)
_needs_enrichment(record, missing_only) ==
  IF ~missing_only THEN TRUE
  ELSE \/ Strip(record.artist) = "" \/ Lower[Strip(record.artist)] = "unknown artist"
       \/ Strip(record.album) = "" \/ Lower[Strip(record.album)] = "miscellaneous"

\* what a lookup gives for one record: no usable candidate (the query
\* failed, found nothing, or scored too low), or the best candidate's
\* artist credit and first release title, and whether its title or year
\* differ from the record's
NoCandidate == [found |-> FALSE, artist |-> "", release |-> "", other |-> FALSE]
Candidates ==
  { [found |-> TRUE, artist |-> a, release |-> r, other |-> o] :
      a \in {"", " Q "}, r \in {"", " "}, o \in BOOLEAN }
Lookups == {NoCandidate} \cup Candidates

\* _artist_name(candidate) or record.artist, and the same for the album
new_artist(record, candidate) ==
  normalized_artist(IF Strip(candidate.artist) # "" THEN Strip(candidate.artist)
                    ELSE record.artist)
new_album(record, candidate) ==
  normalized_album(IF Strip(candidate.release) # "" THEN Strip(candidate.release)
                   ELSE record.album)
Changed(record, candidate) ==
  \/ new_artist(record, candidate) # record.artist
  \/ new_album(record, candidate) # record.album
  \/ candidate.other

\* one iteration of the loop over the candidates of enrich_with_musicbrainz
EnrichOne(record, missing_only, candidate) ==
  IF _needs_enrichment(record, missing_only) /\ candidate.found
     /\ Changed(record, candidate)
  THEN [record EXCEPT !.artist = new_artist(record, candidate),
                      !.album = new_album(record, candidate)]
  ELSE record

\* enrich_with_musicbrainz(records, ...): the records are updated in place;
\* with write_tags the new values are saved to the files where saving works
Enrich ==
  /\ pc = "idle" /\ entry = "organize_files" /\ runs = 0 /\ ~enriched.ran
  /\ \E missing_only \in BOOLEAN, write_tags \in BOOLEAN :
     \E found \in [1..Len(records) -> Lookups] :
       LET checked == { i \in 1..Len(records) : _needs_enrichment(records[i], missing_only) }
           updated == { i \in checked : found[i].found /\ Changed(records[i], found[i]) }
           unmatched == { i \in checked : ~found[i].found }
       IN /\ records' = [i \in 1..Len(records) |->
                           EnrichOne(records[i], missing_only, found[i])]
          /\ \E saved \in (IF write_tags THEN SUBSET updated ELSE { {} }) :
               /\ enriched' = [checked |-> Cardinality(checked),
                               updated |-> Cardinality(updated),
                               unmatched |-> Cardinality(unmatched),
                               tags_written |-> Cardinality(saved), ran |-> TRUE]
               /\ tags' = [p \in DOMAIN tags |->
                             IF \E i \in saved : records[i].file_path = p
                             THEN LET i == CHOOSE i \in saved : records[i].file_path = p
                                  IN [artist |-> records'[i].artist,
                                      album |-> records'[i].album]
                             ELSE tags[p]]
  /\ UNCHANGED <<files, dirs, readonly, destination_root, copy_instead_of_move, entry,
                 dry_run, pc, idx, moved, skipped, sidecar_moved, warnings,
                 source_to_dest_candidates, source_to_dest, sidecar_files_by_dir,
                 sdir, sfile, dest_dir, runs, files0, dirs0, dirs1, outcome,
                 sidecar_log, prev, scan_warnings, unlistable, unstatable,
                 progress_callback, calls, files_done>>

\* the tag values the scanned files carry
RawTags == {"", " ", "A", " A "}
ScanInit ==
  /\ destination_root = <<"out">>
  /\ \E t \in { Tree(SourceTree, {}, {}) } :
       files = t.files /\ dirs = t.dirs /\ readonly = t.readonly
  /\ tags \in { (F1 :> [artist |-> a, album |-> b]) @@ (F2 :> [artist |-> "A", album |-> "B"]) :
                  a \in RawTags, b \in RawTags }
  /\ entry \in {"organize_files", "organize_sidecar_files"}
  /\ records = <<>>
  /\ copy_instead_of_move = FALSE
  /\ dry_run = TRUE
  /\ pc = (IF entry = "organize_files" THEN "unscanned" ELSE "idle")
  /\ idx = 0
  /\ moved = 0 /\ skipped = 0 /\ sidecar_moved = 0 /\ warnings = <<>>
  /\ source_to_dest_candidates = <<>> /\ source_to_dest = <<>>
  /\ sidecar_files_by_dir = <<>> /\ sdir = 1 /\ sfile = 1 /\ dest_dir = <<>>
  /\ runs = 0 /\ files0 = files /\ dirs0 = dirs /\ dirs1 = dirs
  /\ outcome = <<>> /\ sidecar_log = <<>> /\ prev = NoResult /\ files_done = 0
  /\ scan_warnings = <<>> /\ enriched = NotEnriched
  /\ progress_callback = TRUE /\ calls = <<>>
  /\ unlistable = {} /\ unstatable = {}

\* the command line: scan, enrich if asked to, then organize
ScanNext == ScanMusic \/ Enrich \/ Next
ScanSpec == ScanInit /\ [][ScanNext]_vars

\* the same calls, where an apply run may be stopped and then run again
RetryNext == Next \/ Interrupt \/ RetryOrganizeFiles
RetrySpec == Init /\ [][RetryNext]_vars

TypeOK ==
  /\ pc \in {"unscanned", "idle", "primary", "collect", "sidecar dir", "sidecar file",
            "done", "raised", "interrupted"}
  /\ idx \in 0..Len(records)
  /\ moved \in Nat /\ skipped \in Nat /\ sidecar_moved \in Nat
  /\ <<>> \in dirs
  /\ progress_callback \in BOOLEAN
  /\ unlistable \subseteq dirs /\ unstatable \subseteq DOMAIN files
  /\ \A i \in 1..Len(calls) : calls[i] \in Nat \X Nat
  /\ files_done \in Nat

-----------------------------------------------------------------------------
(* Properties *)

Applying == runs >= 1 /\ ~dry_run
Returned == pc = "done"
Canonical(i) == target_path_for(records[i], destination_root)
PathsHolding(f, c) == { p \in DOMAIN f : f[p] = c }
Targets ==
  { outcome[i].target : i \in 1..Len(outcome) } \cup
  { sidecar_log[i].dst : i \in 1..Len(sidecar_log) }

\* name is "stem (k)suffix" of the canonical name, for some k >= 1
Numbered(path, canonical) ==
  /\ Parent(path) = Parent(canonical)
  /\ \E k \in 1..(Cardinality(DOMAIN files) + 1) :
       Name(path) = Stem(Name(canonical)) \o " (" \o ToString(k) \o ")"
                      \o Suffix(Name(canonical))

\* no step changes what a path that holds a file holds
NoOverwriteStep ==
  \A p \in DOMAIN files : p \in DOMAIN files' => files'[p] = files[p]

\* the step that relocates a record writes the canonical path when nothing
\* is there, and otherwise a numbered variant at which nothing is
FreeNameStep ==
  (pc = "primary" /\ pc' = "primary" /\ moved' = moved + 1) =>
    LET written == outcome'[idx + 1].target IN
    /\ ~Exists(files, dirs', written)
    /\ IF Exists(files, dirs', Canonical(idx + 1))
       THEN Numbered(written, Canonical(idx + 1))
       ELSE written = Canonical(idx + 1)

\* record i was relocated, or was in place, and its file was on disk
Settled(i) ==
  /\ outcome[i].kind \in {"moved", "skipped"}
  /\ records[i].file_path \in DOMAIN files0
FinalPath(i) ==
  IF outcome[i].kind = "moved" THEN outcome[i].target ELSE records[i].file_path
CollidingPairs ==
  { ij \in (1..Len(records)) \X (1..Len(records)) :
      /\ ij[1] < ij[2] /\ Canonical(ij[1]) = Canonical(ij[2])
      /\ Settled(ij[1]) /\ Settled(ij[2]) }

\* two records with one canonical target: both files are on disk, at two paths
CollidingPairsKept ==
  (Returned /\ Applying /\ entry = "organize_files") =>
    \A ij \in CollidingPairs :
      \E p, q \in DOMAIN files :
        /\ p # q
        /\ files[p] = files0[records[ij[1]].file_path]
        /\ files[q] = files0[records[ij[2]].file_path]

\* C1 as stated, its last clause: of two records with one canonical target
\* the second is the one that carries the number.
C1_SecondNumbered ==
  (Returned /\ Applying /\ entry = "organize_files" /\ runs = 1) =>
    \A ij \in CollidingPairs : Numbered(FinalPath(ij[2]), Canonical(ij[2]))

\* C1: in apply mode no relocation of a record or of a sidecar writes to a
\* path that holds a file: a record goes to its canonical path when that is
\* free and to a free numbered variant otherwise, and two records with the
\* same canonical target both stay on disk under distinct paths.
C1_NoOverwrite ==
  /\ [][NoOverwriteStep]_vars
  /\ [][FreeNameStep]_vars
  /\ []CollidingPairsKept

C1_Witness ==
  /\ Returned /\ Applying /\ Len(records) = 2
  /\ Canonical(1) = Canonical(2)
  /\ outcome[1].kind = "moved" /\ outcome[2].kind = "moved"
  /\ outcome[2].target # Canonical(2)

\* a move from p0 was given up after the file had been copied
FailedMoveFrom(p0) ==
  \/ \E i \in 1..Len(outcome) :
       records[i].file_path = p0 /\ outcome[i].kind = "transfer failed"
  \/ \E i \in 1..Len(warnings) :
       warnings[i].kind = "organize sidecar skipped" /\ warnings[i].subject = PathStr(p0)

\* C2 as stated: in move mode every file of the tree the pass started on is
\* at exactly one path, its original path or a final target.
C2_ExactlyOnePath ==
  (Applying /\ ~copy_instead_of_move) =>
    \A p0 \in DOMAIN files0 :
      /\ Cardinality(PathsHolding(files, files0[p0])) = 1
      /\ PathsHolding(files, files0[p0]) \subseteq {p0} \cup Targets

\* C2 amended: every file of the tree the pass started on is still on disk,
\* at its original path or at a final target, so no content has fewer copies
\* than before; in move mode it has no more copies than before either (it is
\* at exactly one path), unless its move failed after the copy, when it is at
\* its original path and at the target.
C2_NoFileLost ==
  Applying =>
    \A p0 \in DOMAIN files0 :
      LET at == PathsHolding(files, files0[p0])
          at0 == PathsHolding(files0, files0[p0]) IN
      /\ Cardinality(at) >= Cardinality(at0)
      /\ at \subseteq at0 \cup Targets
      /\ ~copy_instead_of_move =>
           Cardinality(at) <= Cardinality(at0)
                                + Cardinality({ q \in at0 \cap at : FailedMoveFrom(q) })

C2_Witness ==
  /\ Returned /\ Applying /\ ~copy_instead_of_move
  /\ moved >= 1 /\ sidecar_moved >= 1 /\ Len(warnings) >= 1
  /\ \E p0 \in DOMAIN files0 : p0 \notin DOMAIN files

\* C3: a dry run leaves the files and the directories as they were.
C3_DryRunUntouched ==
  (runs >= 1 /\ dry_run) => (files = files0 /\ dirs = dirs0)

\* the call that has returned is an apply run of organize_files that follows
\* a call of organize_files on the same records whose dry_run was `dry`
SecondPassAfter(dry) ==
  /\ Returned /\ entry = "organize_files" /\ runs = 2 /\ ~dry_run
  /\ prev.entry = "organize_files" /\ prev.dry_run = dry

\* C4: the apply run that follows a dry run reports the counts the dry run
\* reported and writes, record by record, the path the dry run announced.
C4_DryRunFidelity ==
  SecondPassAfter(TRUE) =>
    /\ moved = prev.moved /\ skipped = prev.skipped
    /\ \A i \in 1..Len(records) : outcome[i].target = prev.outcome[i].target

\* C5: a second apply run on the same records moves nothing, skips every
\* record and changes no file.
C5_Idempotence ==
  SecondPassAfter(FALSE) =>
    /\ moved = 0 /\ skipped = Len(records)
    /\ files = files0

InPlace(record) == record.file_path = target_path_for(record, destination_root)

\* the step that handles a record in place counts it skipped and does no more
InPlaceStep ==
  (pc = "primary" /\ idx < Len(records) /\ InPlace(records[idx + 1])) =>
    /\ skipped' = skipped + 1 /\ moved' = moved
    /\ files' = files /\ dirs' = dirs
    /\ source_to_dest_candidates' = source_to_dest_candidates
    /\ warnings' = warnings

\* C6: a record whose current path is its canonical target is counted as
\* skipped, once, and nothing else happens for it: no directory is made, no
\* file moved or copied, no vote recorded, moved is not incremented.
C6_InPlaceSkipped ==
  /\ [][InPlaceStep]_vars
  /\ []((Returned /\ entry = "organize_files") =>
          skipped = Cardinality({ i \in 1..Len(records) : InPlace(records[i]) }))

C6_Witness ==
  /\ Returned /\ Applying /\ Len(records) = 2 /\ skipped = 1 /\ moved = 1
  /\ InPlace(records[2])
  /\ records[2].file_path \in DOMAIN files0 \cap DOMAIN files
  /\ files[records[2].file_path] = files0[records[2].file_path]

MkdirFailed == { i \in 1..Len(outcome) : outcome[i].kind = "mkdir failed" }
Referencing(record) ==
  { w \in 1..Len(warnings) :
      warnings[w].subject =
        (IF record.relative_path # "" THEN record.relative_path
         ELSE PathStr(record.file_path)) }

\* C7: when the directory of exactly one record k cannot be made and every
\* other record is relocated, one warning names k's relative path and
\* moved is N - 1.
C7_PartialFailure ==
  (/\ Returned /\ entry = "organize_files"
   /\ Cardinality(MkdirFailed) = 1
   /\ \A i \in 1..Len(records) : i \notin MkdirFailed => outcome[i].kind = "moved") =>
    /\ moved = Len(records) - 1
    /\ \A k \in MkdirFailed : Cardinality(Referencing(records[k])) = 1

C7_Witness ==
  /\ Returned /\ Applying /\ Len(records) = 2
  /\ outcome[1].kind = "mkdir failed" /\ outcome[2].kind = "moved"
  /\ moved = 1

\* the steps of a call that has started
Execute ==
  \/ ProcessRecord \/ CollapseVotes \/ CollectSidecars
  \/ SidecarDirectory \/ SidecarFile \/ Return

\* a call that has started runs on: the interpreter executes one statement
\* after the other, no step waits on anything.  The caller is free never to
\* call again.
FairSpec == Spec /\ WF_vars(Execute)

Running == pc \in {"primary", "collect", "sidecar dir", "sidecar file"}

C9_SidecarsSeedNoDirectory ==
  (pc \in {"sidecar dir", "sidecar file", "done"}) =>
    /\ dirs = dirs1
    /\ \A i \in 1..Len(sidecar_log) : Parent(sidecar_log[i].dst) \in dirs1

C9_Witness ==
  /\ Returned /\ entry = "organize_sidecar_files" /\ Applying
  /\ sidecar_moved >= 1
  /\ \E i \in 1..Len(warnings) : warnings[i].kind = "organize sidecar directory unmapped"

\* C10: no sidecar inside the destination tree is collected or relocated.
C10_DestinationTreeUntouched ==
  /\ \A i \in 1..Len(sidecar_files_by_dir) :
       \A j \in 1..Len(sidecar_files_by_dir[i].v) :
         ~IsUnder(sidecar_files_by_dir[i].v[j], destination_root)
  /\ \A i \in 1..Len(sidecar_log) : ~IsUnder(sidecar_log[i].src, destination_root)

\* the sidecar candidates that sat directly in dir when the call started
SidecarsOf(dir) == { c \in FilesIn(files0, dir) : _is_sidecar_file(files0, c) }

\* C11: after an apply run of organize_files without any failure, every
\* sidecar candidate of a source directory that had an audio file relocated
\* has been relocated into the winning destination of that directory and is
\* counted in sidecar_moved, wherever the destination root lies.
C11_SidecarsTravel ==
  (Returned /\ Applying /\ entry = "organize_files" /\ warnings = <<>>) =>
    /\ \A i \in 1..Len(source_to_dest) :
         \A c \in SidecarsOf(source_to_dest[i].k) :
           \E j \in 1..Len(sidecar_log) :
             /\ sidecar_log[j].src = c
             /\ Parent(sidecar_log[j].dst) = source_to_dest[i].v
    /\ sidecar_moved >=
         Cardinality(UNION { SidecarsOf(source_to_dest[i].k) : i \in 1..Len(source_to_dest) })

\* the warnings that report dir as unmapped
UnmappedWarnings(w, dir) ==
  { i \in 1..Len(w) :
      w[i].kind = "organize sidecar directory unmapped" /\ w[i].subject = PathStr(dir) }

\* the directory that the pattern guess names for dir: the name split at the
\* first " - "
GuessedDir(dir) ==
  LET name == Name(dir)
      at == Find(name, " - ")
  IN destination_root
       \o << sanitize_name(SubSeq(name, 1, at - 1)),
             sanitize_name(_clean_album_dir_name(SubSeq(name, at + 3, Len(name)))) >>

\* the sidecar step has reached the directory src_dir and handles it in
\* the order map entry, pattern guess, unmapped
ResolutionStep ==
  (pc = "sidecar dir" /\ sdir <= Len(sidecar_files_by_dir) /\ vars' # vars) =>
    LET src_dir == sidecar_files_by_dir[sdir].k
        mapped == \E i \in 1..Len(source_to_dest) : source_to_dest[i].k = src_dir
        guessed == /\ src_dir # <<>> /\ Find(Name(src_dir), " - ") > 0
                   /\ Exists(files, dirs, GuessedDir(src_dir))
        Taken(p) ==
          \/ pc' = "sidecar file" /\ dest_dir' = p
          \/ /\ pc' = "sidecar dir" /\ sdir' = sdir + 1
             /\ warnings' # warnings
             /\ warnings'[Len(warnings')].kind = "organize sidecar destination skipped"
             /\ warnings'[Len(warnings')].subject = PathStr(p)
    IN IF mapped
       THEN \E i \in 1..Len(source_to_dest) :
              source_to_dest[i].k = src_dir /\ Taken(source_to_dest[i].v)
       ELSE IF guessed THEN Taken(GuessedDir(src_dir))
       ELSE /\ pc' = "sidecar dir" /\ sdir' = sdir + 1
            /\ Cardinality(UnmappedWarnings(warnings', src_dir)) =
                 Cardinality(UnmappedWarnings(warnings, src_dir)) + 1
            /\ Len(warnings') = Len(warnings) + 1
            /\ files' = files /\ dirs' = dirs /\ sidecar_moved' = sidecar_moved
            /\ sidecar_log' = sidecar_log

\* an unmapped directory is warned about once, and none of its files is
\* relocated or counted
UnmappedLeftAlone ==
  Returned =>
    \A i \in 1..Len(sidecar_files_by_dir) :
      LET dir == sidecar_files_by_dir[i].k
          n == Cardinality(UnmappedWarnings(warnings, dir))
      IN /\ n <= 1
         /\ n = 1 => \A j \in 1..Len(sidecar_log) : Parent(sidecar_log[j].src) # dir
         /\ sidecar_moved = Len(sidecar_log)

-----------------------------------------------------------------------------
(* Runs on an album directory whose tracks are tagged with different       *)
(* artists, so that one source directory votes for several destinations.   *)

VoteDir == <<"m", "x">>
VoteFile(n) == Append(VoteDir, "t" \o ToString(n) \o ".mp3")
VoteFiles == [p \in { VoteFile(n) : n \in 1..MaxVotes } \cup {S1} |->
                IF p = S1 THEN 4 ELSE 10 + (CHOOSE n \in 1..MaxVotes : VoteFile(n) = p)]
VoteTrees ==
  { Tree(VoteFiles, {}, {}),
    Tree([p \in DOMAIN VoteFiles \ {VoteFile(1)} |-> VoteFiles[p]], {}, {}) }
VoteRecords ==
  { Track(VoteFile(n), RelativeTo(VoteFile(n), ScanRoot), artist, "B") :
      n \in 1..MaxVotes, artist \in {"A", "Z"} }
VoteLists ==
  { l \in UNION { [1..n -> VoteRecords] : n \in 0..MaxVotes } :
      \A i, j \in 1..Len(l) : l[i].file_path = l[j].file_path => i = j }

VoteInit ==
  /\ destination_root = <<"out">>
  /\ \E t \in VoteTrees :
       files = t.files /\ dirs = t.dirs /\ readonly = t.readonly
  /\ entry \in {"organize_files", "organize_sidecar_files"}
  /\ records \in (IF entry = "organize_files" THEN VoteLists ELSE { <<>> })
  /\ copy_instead_of_move \in BOOLEAN
  /\ dry_run = TRUE
  /\ pc = "idle" /\ idx = 0
  /\ moved = 0 /\ skipped = 0 /\ sidecar_moved = 0 /\ warnings = <<>>
  /\ source_to_dest_candidates = <<>> /\ source_to_dest = <<>>
  /\ sidecar_files_by_dir = <<>> /\ sdir = 1 /\ sfile = 1 /\ dest_dir = <<>>
  /\ runs = 0 /\ files0 = files /\ dirs0 = dirs /\ dirs1 = dirs
  /\ outcome = <<>> /\ sidecar_log = <<>> /\ prev = NoResult /\ files_done = 0
  /\ tags = NoTags /\ scan_warnings = <<>> /\ enriched = NotEnriched
  /\ progress_callback = TRUE /\ calls = <<>>
  /\ unlistable = {} /\ unstatable = {}

VoteSpec == VoteInit /\ [][Next]_vars

\* the records counted as moved out of src, and their votes for dst
MovedFrom(src) ==
  { i \in 1..Len(outcome) :
      outcome[i].kind = "moved" /\ Parent(records[i].file_path) = src }
VotesFor(src, dst) == { i \in MovedFrom(src) : Parent(outcome[i].target) = dst }
FirstVote(src, dst) ==
  CHOOSE i \in VotesFor(src, dst) : \A j \in VotesFor(src, dst) : i <= j

\* C13: once the votes are collapsed the map has one entry for each source
\* directory that had a record counted as moved and no other entry; the
\* entry is a destination with the most votes, and among those the one
\* whose first vote came earliest in the record list.
C13_MajorityVote ==
  (entry = "organize_files" /\ pc \in {"collect", "sidecar dir", "sidecar file", "done"}) =>
    /\ { source_to_dest[i].k : i \in 1..Len(source_to_dest) } =
         { Parent(records[i].file_path) : i \in { j \in 1..Len(outcome) : outcome[j].kind = "moved" } }
    /\ \A i, j \in 1..Len(source_to_dest) :
         source_to_dest[i].k = source_to_dest[j].k => i = j
    /\ \A i \in 1..Len(source_to_dest) :
         LET src == source_to_dest[i].k
             won == source_to_dest[i].v
         IN /\ VotesFor(src, won) # {}
            /\ \A j \in MovedFrom(src) :
                 LET dst == Parent(outcome[j].target) IN
                 /\ Cardinality(VotesFor(src, dst)) <= Cardinality(VotesFor(src, won))
                 /\ (dst # won /\ Cardinality(VotesFor(src, dst)) = Cardinality(VotesFor(src, won)))
                      => FirstVote(src, won) < FirstVote(src, dst)

\* a tie between two destinations, and a majority against the first vote
C13_Witness ==
  /\ Returned /\ entry = "organize_files" /\ Len(source_to_dest) = 1
  /\ Len(outcome) = 3
  /\ Cardinality(MovedFrom(VoteDir)) = 3
  /\ Parent(outcome[1].target) # source_to_dest[1].v
  /\ sidecar_moved = 1

SidecarPass == entry = "organize_sidecar_files" /\ pc # "idle"

\* C14: a call of organize_sidecar_files counts no audio record (moved and
\* skipped stay 0), resolves directories against an empty map, transfers
\* only regular files whose name does not start with "._" and whose
\* extension is in the sidecar list (never an audio file), and leaves every
\* file it did not transfer at its path with its content.
C14_SidecarPassFrame ==
  /\ SIDECAR_EXTENSIONS \cap AUDIO_EXTENSIONS = {}
  /\ SidecarPass =>
       /\ moved = 0 /\ skipped = 0
       /\ source_to_dest = <<>> /\ source_to_dest_candidates = <<>>
       /\ \A j \in 1..Len(sidecar_log) :
            LET src == sidecar_log[j].src IN
            /\ src \in DOMAIN files0
            /\ ~StartsWith(Name(src), "._")
            /\ Lower[Suffix(Name(src))] \in SIDECAR_EXTENSIONS
            /\ ~is_audio_file(files0, src)
       /\ \A p \in DOMAIN files0 :
            (\A j \in 1..Len(sidecar_log) : sidecar_log[j].src # p) =>
              p \in DOMAIN files /\ files[p] = files0[p]

\* a sidecar-only pass moved a sidecar next to an audio file that stayed
C14_Witness ==
  /\ SidecarPass /\ Returned /\ ~dry_run /\ ~copy_instead_of_move
  /\ sidecar_moved >= 1
  /\ \E j \in 1..Len(sidecar_log) :
       /\ sidecar_log[j].src \notin DOMAIN files
       /\ \E a \in DOMAIN files :
            Parent(a) = Parent(sidecar_log[j].src) /\ is_audio_file(files, a)

-----------------------------------------------------------------------------
(* Runs on a destination in which the canonical names and some of their    *)
(* numbered variants are already taken, by files or by a directory.        *)

WithNumber(path, k) ==
  Append(Parent(path),
    Stem(Name(path)) \o " (" \o ToString(k) \o ")" \o Suffix(Name(path)))
TakenNames(path) == {path} \cup { WithNumber(path, k) : k \in 1..MaxTaken }
ProbeDest == <<"out">>
ProbeTrees ==
  { Tree(SourceTree @@ [p \in taken |-> 20], Prefixes(ProbeDest), {}) :
      taken \in SUBSET (TakenNames(D3(ProbeDest)) \cup {D6(ProbeDest)}) }
  \cup
  { Tree(SourceTree @@ (D3(ProbeDest) :> 20),
         Prefixes(WithNumber(D3(ProbeDest), 1)), {}) }

ProbeInit ==
  /\ destination_root = ProbeDest
  /\ \E t \in ProbeTrees :
       files = t.files /\ dirs = t.dirs /\ readonly = t.readonly
  /\ entry \in {"organize_files", "organize_sidecar_files"}
  /\ records \in (IF entry = "organize_files"
                  THEN { <<Track(F1, RelativeTo(F1, ScanRoot), "A", "B")>>,
                         <<Track(F2, RelativeTo(F2, ScanRoot), "A", "B")>> }
                  ELSE { <<>> })
  /\ copy_instead_of_move \in BOOLEAN
  /\ dry_run = TRUE
  /\ pc = "idle" /\ idx = 0
  /\ moved = 0 /\ skipped = 0 /\ sidecar_moved = 0 /\ warnings = <<>>
  /\ source_to_dest_candidates = <<>> /\ source_to_dest = <<>>
  /\ sidecar_files_by_dir = <<>> /\ sdir = 1 /\ sfile = 1 /\ dest_dir = <<>>
  /\ runs = 0 /\ files0 = files /\ dirs0 = dirs /\ dirs1 = dirs
  /\ outcome = <<>> /\ sidecar_log = <<>> /\ prev = NoResult /\ files_done = 0
  /\ tags = NoTags /\ scan_warnings = <<>> /\ enriched = NotEnriched
  /\ progress_callback = TRUE /\ calls = <<>>
  /\ unlistable = {} /\ unstatable = {}

ProbeSpec == ProbeInit /\ [][Next]_vars

\* returned is path when nothing is at path, and otherwise the numbered
\* variant of path with the smallest number at which nothing is
FirstFree(f, d, path, returned) ==
  /\ ~Exists(f, d, returned)
  /\ IF ~Exists(f, d, path) THEN returned = path
     ELSE \E k \in 1..(Cardinality(DOMAIN f) + Cardinality(d) + 1) :
            /\ returned = WithNumber(path, k)
            /\ \A j \in 1..(k - 1) : Exists(f, d, WithNumber(path, j))

\* the steps that call _non_colliding_path and go on with what it returned
ProbedRecord ==
  /\ pc = "primary" /\ idx < Len(records)
  /\ outcome'[idx + 1].target # <<>>
ProbedSidecar ==
  /\ pc = "sidecar file"
  /\ Len(sidecar_log') = Len(sidecar_log) + 1

\* C15: _non_colliding_path returns the path itself when nothing exists
\* there, and otherwise "stem (k)suffix" in the same parent for the smallest
\* k >= 1 at which nothing exists; the probe ends within as many steps as
\* there are entries on disk, and nothing exists at the returned path when
\* it is returned.
C15_SmallestFreeNumber ==
  [][ /\ ProbedRecord =>
           FirstFree(files, dirs', Canonical(idx + 1), outcome'[idx + 1].target)
      /\ ProbedSidecar =>
           FirstFree(files, dirs,
                     Append(dest_dir, Name(sidecar_files_by_dir[sdir].v[sfile])),
                     sidecar_log'[Len(sidecar_log')].dst) ]_vars

\* a record was written under number 2 or higher: the numbers below were taken
C15_Witness ==
  /\ Len(outcome) = 1 /\ outcome[1].kind = "moved"
  /\ \E k \in 2..(MaxTaken + 1) : outcome[1].target = WithNumber(Canonical(1), k)
  /\ \A k \in 1..MaxTaken : WithNumber(Canonical(1), k) \in DOMAIN files0
  /\ ~dry_run

-----------------------------------------------------------------------------
(* Runs on one record whose artist or album tag is any short string over   *)
(* a letter, a blank, a period, a separator and a control character.       *)

TagChars == {"a", " ", ".", "/", "\t"}
RECURSIVE TagValues(_)
TagValues(n) ==
  IF n = 0 THEN {""}
  ELSE {""} \cup { c \o s : c \in TagChars, s \in TagValues(n - 1) }
\* an audio file whose name holds characters a directory name would lose
OddName == <<"m", "x", "a:b?.mp3">>
TagRecords ==
  { Track(F1, RelativeTo(F1, ScanRoot), artist, "B") : artist \in TagValues(MaxName) }
  \cup
  { Track(F1, RelativeTo(F1, ScanRoot), "A", album) : album \in TagValues(MaxName) }
  \cup
  { Track(OddName, RelativeTo(OddName, ScanRoot), "A", "B") }

TagInit ==
  /\ destination_root = <<"out">>
  /\ \E t \in { Tree((F1 :> 1) @@ (S1 :> 4) @@ (OddName :> 9), {}, {}) } :
       files = t.files /\ dirs = t.dirs /\ readonly = t.readonly
  /\ entry \in {"organize_files", "organize_sidecar_files"}
  /\ records \in (IF entry = "organize_files"
                  THEN { <<r>> : r \in TagRecords } ELSE { <<>> })
  /\ copy_instead_of_move \in BOOLEAN
  /\ dry_run = TRUE
  /\ pc = "idle" /\ idx = 0
  /\ moved = 0 /\ skipped = 0 /\ sidecar_moved = 0 /\ warnings = <<>>
  /\ source_to_dest_candidates = <<>> /\ source_to_dest = <<>>
  /\ sidecar_files_by_dir = <<>> /\ sdir = 1 /\ sfile = 1 /\ dest_dir = <<>>
  /\ runs = 0 /\ files0 = files /\ dirs0 = dirs /\ dirs1 = dirs
  /\ outcome = <<>> /\ sidecar_log = <<>> /\ prev = NoResult /\ files_done = 0
  /\ tags = NoTags /\ scan_warnings = <<>> /\ enriched = NotEnriched
  /\ progress_callback = TRUE /\ calls = <<>>
  /\ unlistable = {} /\ unstatable = {}

TagSpec == TagInit /\ [][Next]_vars

Char(s, i) == SubSeq(s, i, i)
\* the characters that must not remain, as far as a string here can spell them
Forbidden == {"<", ">", ":", "\"", "/", "\\", "|", "?", "*"}
ControlChars == {"\t", "\n", "\r", "\f"}
\* blanks, then periods, then blanks: nothing is left once the blanks around
\* the value and the periods at its end are taken off
OnlyBlanksAndTrailingPeriods(s) ==
  /\ \A i \in 1..Len(s) : Char(s, i) \in Whitespace \cup {"."}
  /\ \A i, j, k \in 1..Len(s) :
       (i < j /\ j < k) => ~(Char(s, i) = "." /\ Char(s, j) \in Whitespace /\ Char(s, k) = ".")
Sanitized(input, output) ==
  /\ output # ""
  /\ \A i \in 1..Len(output) : Char(output, i) \notin Forbidden \cup ControlChars
  /\ Char(output, Len(output)) # "."
  /\ OnlyBlanksAndTrailingPeriods(input) => output = "Unknown"

\* C16: the artist and album components of every target that was computed
\* are sanitize_name of the tags: not empty, free of < > : " / \ | ? * and
\* of control characters, not ending with a period, and "Unknown" when the
\* tag is empty or only blanks and trailing periods.
C16_SanitizedComponents ==
  \A i \in 1..Len(outcome) :
    outcome[i].target # <<>> =>
      LET n == Len(destination_root) IN
      /\ Len(outcome[i].target) = n + 3
      /\ Sanitized(records[i].artist, outcome[i].target[n + 1])
      /\ records[i].album # "" =>
           Sanitized(records[i].album, outcome[i].target[n + 2])

\* a tag of a blank, a period and a blank became Unknown, on disk
C16_Witness ==
  /\ Returned /\ Applying /\ Len(outcome) = 1
  /\ records[1].artist = " . "
  /\ outcome[1].kind = "moved"
  /\ outcome[1].target = <<"out", "Unknown", "B", "a.mp3">>
  /\ outcome[1].target \in DOMAIN files

\* C17: a record whose artist is empty is placed under "Unknown Artist" and
\* a record whose album is empty under "Miscellaneous", below the
\* destination root and under its own file name.
C17_EmptyTagsPlacement ==
  \A i \in 1..Len(outcome) :
    outcome[i].target # <<>> =>
      LET n == Len(destination_root) IN
      /\ records[i].artist = "" => outcome[i].target[n + 1] = "Unknown Artist"
      /\ records[i].album = "" => outcome[i].target[n + 2] = "Miscellaneous"
      /\ outcome[i].target[n + 3] = Name(records[i].file_path)

\* the call that has returned ran again the records of a stopped apply run
RetryReturned ==
  Returned /\ entry = "organize_files" /\ "interrupted" \in DOMAIN prev

\* C18: when a stopped apply run is run again on the same records, every
\* record the stopped run had relocated is found in place (counted skipped,
\* no warning, not relocated again), its file is at the path the stopped
\* run wrote and nowhere else but, in copy mode, at its source.
C18_RetryAfterInterrupt ==
  RetryReturned =>
    \A i \in 1..Len(prev.outcome) :
      prev.outcome[i].kind = "moved" =>
        /\ outcome[i].kind = "skipped"
        /\ prev.outcome[i].target \in DOMAIN files
        /\ PathsHolding(files, prev.outcome[i].content) =
             {prev.outcome[i].target} \cup
             (IF copy_instead_of_move THEN {records[i].file_path} ELSE {})

\* what a callback given to organize_files has received when idx records
\* are done: (0, N), then (i, N) for i = 1..idx
RecordCalls == [i \in 1..(idx + 1) |-> <<i - 1, Len(records)>>]

WalkRoot ==
  IF entry = "organize_sidecar_files" THEN ScanRoot ELSE _infer_scan_root(records).path
Walking ==
  /\ pc = "collect"
  /\ entry = "organize_sidecar_files" \/ _infer_scan_root(records).found
  /\ WalkRoot \in dirs
\* the walk gets to p: p is under the root and every directory from the root
\* down to the parent of p can be listed
Reached(p) ==
  /\ p \in dirs /\ IsUnder(p, WalkRoot)
  /\ \A q \in Prefixes(p) : (IsUnder(q, WalkRoot) /\ q # p) => q \notin unlistable
Visited(p) == Reached(p) /\ p \notin unlistable
OutsideDestination(p) == ~IsUnder(p, destination_root)
\* the warnings the step added, and how many of them are of a kind and name
WalkWarnings == SubSeq(warnings', Len(warnings) + 1, Len(warnings'))
Naming(kind, path) ==
  { i \in 1..Len(WalkWarnings) :
      WalkWarnings[i].kind = kind /\ WalkWarnings[i].subject = PathStr(path) }
ExpectedWalkErrors == { p \in dirs : Reached(p) /\ p \in unlistable }
ExpectedSkipped ==
  { c \in DOMAIN files \cap unstatable :
      Visited(Parent(c)) /\ OutsideDestination(Parent(c)) }
CandidatesIn(p) ==
  { c \in FilesIn(files, p) \ unstatable :
      /\ ~StartsWith(Name(c), "._")
      /\ Lower[Suffix(Name(c))] \in SIDECAR_EXTENSIONS }
ExpectedKeys ==
  { p \in dirs : Visited(p) /\ OutsideDestination(p) /\ CandidatesIn(p) # {} }

WalkStep ==
  Walking =>
    LET map == sidecar_files_by_dir' IN
    /\ \A p \in dirs :
         Cardinality(Naming("organize sidecar walk error", p)) =
           (IF p \in ExpectedWalkErrors THEN 1 ELSE 0)
    /\ \A c \in DOMAIN files :
         Cardinality(Naming("organize sidecar skipped", c)) =
           (IF c \in ExpectedSkipped THEN 1 ELSE 0)
    /\ Len(WalkWarnings) = Cardinality(ExpectedWalkErrors) + Cardinality(ExpectedSkipped)
    /\ { map[i].k : i \in 1..Len(map) } = ExpectedKeys
    /\ Len(map) = Cardinality(ExpectedKeys)
    /\ \A i \in 1..Len(map) :
         /\ { map[i].v[j] : j \in 1..Len(map[i].v) } = CandidatesIn(map[i].k)
         /\ Len(map[i].v) = Cardinality(CandidatesIn(map[i].k))

\* C20: in the walk of _collect_sidecar_files each directory that is reached
\* and cannot be listed gives one warning that names it, each file of a
\* visited directory outside the destination tree whose classification
\* raises gives one warning that names it, there is no other warning, and
\* the mapping holds, for each visited directory outside the destination
\* tree that has candidates, exactly those candidates (the siblings of a
\* directory or file in error included).
C20_WalkerErrorTolerance == [][WalkStep]_vars

\* the walk could not list /m/x, could not classify bad.jpg in the album
\* directory next to it, and still collected the sidecar of that directory
C20_Witness ==
  /\ pc = "sidecar dir" /\ sdir = 1 /\ entry = "organize_sidecar_files"
  /\ unlistable = {<<"m", "x">>} /\ unstatable = {BadFile}
  /\ Len(warnings) = 2
  /\ \E i, j \in 1..2 :
       /\ warnings[i].kind = "organize sidecar walk error"
       /\ warnings[i].subject = PathStr(<<"m", "x">>)
       /\ warnings[j].kind = "organize sidecar skipped"
       /\ warnings[j].subject = PathStr(BadFile)
  /\ sidecar_files_by_dir = <<[k |-> AlbumDir, v |-> <<S2>>]>>

\* C21: every record that scan_music made, and every record after
\* enrich_with_musicbrainz, has an artist and an album that are not empty
\* once trimmed; a file without an artist tag is scanned as "Unknown Artist"
\* and one without an album tag as "Miscellaneous".
C21_RecordsNeverEmpty ==
  (entry = "organize_files" /\ pc # "unscanned") =>
    \A i \in 1..Len(records) :
      /\ Strip(records[i].artist) # "" /\ Strip(records[i].album) # ""
      /\ ~enriched.ran =>
           LET raw == tags[records[i].file_path] IN
           /\ Strip(raw.artist) = "" => records[i].artist = "Unknown Artist"
           /\ Strip(raw.album) = "" => records[i].album = "Miscellaneous"

\* a file with blank tags was scanned, a lookup gave it an artist and a
\* blank release title, and the run went on to organize it
C21_Witness ==
  /\ Returned /\ entry = "organize_files" /\ enriched.ran /\ enriched.updated >= 1
  /\ \E i \in 1..Len(records) :
       /\ records[i].file_path = F1
       /\ Strip(tags[F1].artist) = ""
       /\ records[i].artist = "Q" /\ records[i].album = "Miscellaneous"
       /\ outcome[i].kind = "moved"

\* the warnings a step appended
Appended == SubSeq(warnings', Len(warnings) + 1, Len(warnings'))
InCall == entry = "organize_files" /\ runs' = runs
CollectionKinds ==
  {"organize sidecar walk error", "organize sidecar skipped",
   "organize sidecar directory skipped"}
Failed(i) == outcome[i].kind \notin {"moved", "skipped"}

\* every step of a call keeps the warnings it found and adds, for the place
\* it is at, the warning of what failed there and no other
WarningStep ==
  InCall =>
    /\ Len(warnings') >= Len(warnings)
    /\ SubSeq(warnings', 1, Len(warnings)) = warnings
    /\ (pc = "primary" /\ idx' = idx + 1) =>
         IF outcome'[idx + 1].kind \notin {"moved", "skipped"} /\ pc' # "raised"
         THEN /\ Len(Appended) = 1
              /\ Appended[1].kind = "organize skipped"
              /\ Appended[1].subject =
                   (IF records[idx + 1].relative_path # ""
                    THEN records[idx + 1].relative_path
                    ELSE PathStr(records[idx + 1].file_path))
         ELSE Appended = <<>>
    /\ (pc = "primary" /\ idx' = idx) => Appended = <<>>
    /\ pc = "collect" =>
         \A i \in 1..Len(Appended) : Appended[i].kind \in CollectionKinds
    /\ (pc = "sidecar dir" /\ pc' \in {"sidecar dir", "sidecar file"}) =>
         IF sdir' = sdir + 1
         THEN /\ Len(Appended) = 1
              /\ \/ /\ Appended[1].kind = "organize sidecar directory unmapped"
                    /\ Appended[1].subject = PathStr(sidecar_files_by_dir[sdir].k)
                 \/ Appended[1].kind = "organize sidecar destination skipped"
         ELSE Appended = <<>>
    /\ (pc = "sidecar file" /\ pc' # "raised") =>
         IF Len(sidecar_log') = Len(sidecar_log)
         THEN /\ Len(Appended) = 1
              /\ Appended[1].kind = "organize sidecar skipped"
              /\ Appended[1].subject = PathStr(sidecar_files_by_dir[sdir].v[sfile])
         ELSE Appended = <<>>

\* the warnings of the record loop come first, one for each failed record
\* and in the order of the records; no warning of the collection follows one
\* of the relocation
WarningPhases ==
  (entry = "organize_files" /\ pc \notin {"idle", "raised"}) =>
    LET failed == { i \in 1..Len(outcome) : Failed(i) }
        first == { w \in 1..Len(warnings) : warnings[w].kind = "organize skipped" }
    IN /\ first = 1..Cardinality(failed)
       /\ \A w \in first :
            \E i \in failed :
              /\ Cardinality({ j \in failed : j <= i }) = w
              /\ warnings[w].subject =
                   (IF records[i].relative_path # "" THEN records[i].relative_path
                    ELSE PathStr(records[i].file_path))
       /\ \A v, w \in 1..Len(warnings) :
            (/\ v < w
             /\ warnings[v].kind \in {"organize sidecar directory unmapped",
                                      "organize sidecar destination skipped"})
              => warnings[w].kind \notin {"organize skipped",
                                          "organize sidecar walk error",
                                          "organize sidecar directory skipped"}

\* C22: the warnings of organize_files are those of the record loop in
\* record order, then those of the sidecar collection, then those of the
\* sidecar relocation in the order the directories and files are handled;
\* a warning is never removed or moved, and there is one for each failed
\* record, each failed sidecar file and each unmapped or skipped directory.
C22_WarningOrder == [][WarningStep]_vars /\ []WarningPhases

\* a call returned a warning of each of the three steps, in that order
C22_Witness ==
  /\ Returned /\ entry = "organize_files"
  /\ \E u, v, w \in 1..Len(warnings) :
       /\ u < v /\ v < w
       /\ warnings[u].kind = "organize skipped"
       /\ warnings[v].kind \in CollectionKinds
       /\ warnings[w].kind \in {"organize sidecar directory unmapped",
                                "organize sidecar destination skipped"}

\* destination_root / sanitize(artist) / sanitize(album or "Miscellaneous") /
\* the file name as it is
ExpectedTarget(record) ==
  Append(Append(Append(destination_root, sanitize_name(record.artist)),
                sanitize_name(IF record.album = "" THEN "Miscellaneous" ELSE record.album)),
         Name(record.file_path))

\* C23: in every state, whatever is on disk, target_path_for gives for each
\* record the destination root, the sanitized artist, the sanitized album
\* ("Miscellaneous" for an empty one) and the record's own file name,
\* unchanged; a record is written there, or under a numbered variant of
\* that name when something exists there.
C23_CanonicalTarget ==
  /\ \A i \in 1..Len(records) :
       target_path_for(records[i], destination_root) = ExpectedTarget(records[i])
  /\ \A i \in 1..Len(outcome) :
       outcome[i].target # <<>> =>
         /\ \/ outcome[i].target = ExpectedTarget(records[i])
            \/ Numbered(outcome[i].target, ExpectedTarget(records[i]))
         /\ (Len(records) = 1 /\ ~Exists(files0, dirs0, ExpectedTarget(records[i])))
              => outcome[i].target = ExpectedTarget(records[i])

\* the file with the odd name was moved under that very name
C23_Witness ==
  /\ Returned /\ Applying /\ ~copy_instead_of_move /\ Len(outcome) = 1
  /\ records[1].file_path = OddName
  /\ outcome[1].kind = "moved"
  /\ outcome[1].target = <<"out", "A", "B", "a:b?.mp3">>
  /\ outcome[1].target \in DOMAIN files /\ OddName \notin DOMAIN files

\* the number of components of a record's relative path
RelDepth(record) == Len(Parts(record.relative_path))
\* a record whose relative path is non-empty and no deeper than its path
Usable(record) == RelDepth(record) >= 1 /\ RelDepth(record) <= Len(record.file_path)
\* every record lies under root, at its relative path
CommonRoot(recs, root) ==
  \A i \in 1..Len(recs) :
    /\ Parts(recs[i].relative_path) # <<>>
    /\ recs[i].file_path = root \o Parts(recs[i].relative_path)
FirstNonEmpty(recs) ==
  CHOOSE i \in 1..Len(recs) :
    /\ RelDepth(recs[i]) >= 1
    /\ \A j \in 1..(i - 1) : RelDepth(recs[j]) = 0
\* what the step that gathers the sidecar files gathered
Gathered == [map |-> sidecar_files_by_dir', warnings |-> Appended]

InferredRoot ==
  /\ \A root \in UNION { Prefixes(records[i].file_path) : i \in 1..Len(records) } :
       (records # <<>> /\ CommonRoot(records, root)) =>
         /\ _infer_scan_root(records) = Some(root)
         /\ root = SubSeq(records[FirstNonEmpty(records)].file_path, 1,
                          Len(records[FirstNonEmpty(records)].file_path)
                            - RelDepth(records[FirstNonEmpty(records)]))
  /\ _infer_scan_root(records) = None
       <=> ~\E i \in 1..Len(records) : Usable(records[i])

FallbackStep ==
  (pc = "collect" /\ pc' # pc /\ entry = "organize_files") =>
    IF \E i \in 1..Len(records) : Usable(records[i])
    THEN \E i \in 1..Len(records) :
           /\ Usable(records[i])
           /\ \A j \in 1..(i - 1) : ~Usable(records[j])
           /\ Gathered \in _collect_sidecar_files(
                             files, dirs,
                             SubSeq(records[i].file_path, 1,
                                    Len(records[i].file_path) - RelDepth(records[i])),
                             destination_root)
    ELSE Gathered \in FlatListing(files, dirs, source_to_dest)

\* C24: when every record lies at its relative path under one common root,
\* _infer_scan_root returns that root, read off the first record whose
\* relative path is non-empty; it returns None exactly when no record has a
\* non-empty relative path no deeper than its own path, and organize_files
\* lists the mapped source directories flat in that case and in no other:
\* otherwise it walks the inferred root.
C24_ScanRootInference == []InferredRoot /\ [][FallbackStep]_vars

\* two records of one scan were walked from the scan root, which found a
\* sidecar file in a directory no record maps
C24_Witness ==
  /\ pc = "sidecar dir" /\ entry = "organize_files" /\ Len(records) = 2
  /\ CommonRoot(records, ScanRoot)
  /\ _infer_scan_root(records) = Some(ScanRoot)
  /\ \E i \in 1..Len(sidecar_files_by_dir) :
       ~DictHas(source_to_dest, sidecar_files_by_dir[i].k)

\* the warnings of the record loop
PrimaryWarnings == { w \in 1..Len(warnings) : warnings[w].kind = "organize skipped" }
PrimaryWarningsAfter ==
  { w \in 1..Len(warnings') : warnings'[w].kind = "organize skipped" }
InOrganizeFiles == entry = "organize_files" /\ runs >= 1

\* each record handled so far is counted once: moved, skipped or warned of
RecordsAccounted ==
  InOrganizeFiles =>
    /\ idx <= Len(records) /\ Len(outcome) = idx
    /\ moved + skipped + Cardinality(PrimaryWarnings) = idx
    /\ moved = Cardinality({ i \in 1..idx : outcome[i].kind = "moved" })
    /\ skipped = Cardinality({ i \in 1..idx : outcome[i].kind = "skipped" })
    /\ Cardinality(PrimaryWarnings)
         = Cardinality({ i \in 1..idx : outcome[i].kind \notin {"moved", "skipped"} })
    /\ pc \in {"collect", "sidecar dir", "sidecar file", "done"} => idx = Len(records)

\* one iteration of the record loop adds one to exactly one of the three
\* counts; in an apply run it adds to moved only when the file's content
\* has arrived at a target that was free, and in move mode has left its source
RecordStep ==
  (InOrganizeFiles /\ idx' = idx + 1) =>
    LET source_path == records[idx'].file_path
        target == outcome'[idx'].target
        added == Cardinality(PrimaryWarningsAfter) - Cardinality(PrimaryWarnings)
    IN /\ \/ moved' = moved + 1 /\ skipped' = skipped /\ added = 0
          \/ moved' = moved /\ skipped' = skipped + 1 /\ added = 0
          \/ moved' = moved /\ skipped' = skipped /\ added = 1
       /\ (moved' = moved + 1 /\ ~dry_run) =>
            /\ source_path \in DOMAIN files
            /\ ~Exists(files, dirs, target)
            /\ target \in DOMAIN files' /\ files'[target] = files[source_path]
            /\ copy_instead_of_move => source_path \in DOMAIN files'
            /\ ~copy_instead_of_move => source_path \notin DOMAIN files'

\* C25: in organize_files, after i records moved + skipped + the number of
\* "organize skipped" warnings is i, each record being counted in exactly one
\* of the three, and the sum is len(records) from the end of the loop to the
\* return; an apply run counts a record as moved only once its copy or move
\* has completed.
C25_RecordAccounting == []RecordsAccounted /\ [][RecordStep]_vars

\* an apply run returned with one record relocated and one warned of
C25_Witness ==
  /\ Returned /\ Applying /\ entry = "organize_files" /\ Len(records) = 2
  /\ moved = 1 /\ skipped = 0 /\ Cardinality(PrimaryWarnings) = 1
  /\ outcome[1].kind = "transfer failed" /\ outcome[2].kind = "moved"

InSidecarPass == runs >= 1 /\ pc \in {"sidecar dir", "sidecar file", "done"}
\* the collected files, by position: directory d of the map, file f of its list
Collected ==
  UNION { { <<d, f>> : f \in 1..Len(sidecar_files_by_dir[d].v) } :
            d \in 1..Len(sidecar_files_by_dir) }
\* those the loops have passed
Passed == { c \in Collected : c[1] < sdir \/ (c[1] = sdir /\ c[2] < sfile) }
CollectedFile(c) == sidecar_files_by_dir[c[1]].v[c[2]]
CountedMoved(c) == \E i \in 1..Len(sidecar_log) : sidecar_log[i].src = CollectedFile(c)
WarnedSkipped(c) ==
  \E w \in 1..Len(warnings) :
    /\ warnings[w].kind = "organize sidecar skipped"
    /\ warnings[w].subject = PathStr(CollectedFile(c))
\* where the files of src_dir go: the mapped directory, or else the one its
\* name spells
DestinationOf(src_dir) ==
  IF DictHas(source_to_dest, src_dir) THEN DictGet(source_to_dest, src_dir)
  ELSE destination_root \o
         <<sanitize_name(SubSeq(Name(src_dir), 1, Find(Name(src_dir), " - ") - 1)),
           sanitize_name(_clean_album_dir_name(
             SubSeq(Name(src_dir), Find(Name(src_dir), " - ") + 3, Len(Name(src_dir)))))>>
\* the warnings that report directory d whole
DirectoryReports(d) ==
  { w \in 1..Len(warnings) :
      \/ /\ warnings[w].kind = "organize sidecar directory unmapped"
         /\ warnings[w].subject = PathStr(sidecar_files_by_dir[d].k)
      \/ /\ warnings[w].kind = "organize sidecar destination skipped"
         /\ warnings[w].subject = PathStr(DestinationOf(sidecar_files_by_dir[d].k)) }
One(a, b, c) == (a /\ ~b /\ ~c) \/ (~a /\ b /\ ~c) \/ (~a /\ ~b /\ c)

SidecarsAccounted ==
  InSidecarPass =>
    /\ \A c \in Passed :
         One(CountedMoved(c), WarnedSkipped(c), DirectoryReports(c[1]) # {})
    /\ \A d \in 1..Len(sidecar_files_by_dir) : Cardinality(DirectoryReports(d)) <= 1
    /\ \A c \in Collected \ Passed :
         ~CountedMoved(c) /\ ~WarnedSkipped(c) /\ (c[1] > sdir => DirectoryReports(c[1]) = {})
    /\ sidecar_moved = Cardinality({ c \in Collected : CountedMoved(c) })
    /\ sidecar_moved = Len(sidecar_log)
    /\ files_done = Cardinality(Passed)
    /\ sidecar_moved <= files_done
    /\ files_done <= files_total(sidecar_files_by_dir)
    /\ files_total(sidecar_files_by_dir) = Cardinality(Collected)
    /\ Returned => files_done = files_total(sidecar_files_by_dir)

\* a directory is reported whole by one warning, and then none of its files
\* is looked at; a file is counted or warned of, never both
SidecarStep ==
  /\ (pc = "sidecar dir" /\ pc' = "sidecar dir" /\ sdir' = sdir + 1) =>
       /\ Len(Appended) = 1
       /\ Appended[1].kind \in {"organize sidecar directory unmapped",
                                "organize sidecar destination skipped"}
       /\ files_done' = files_done + Len(sidecar_files_by_dir[sdir].v)
       /\ sidecar_moved' = sidecar_moved
  /\ (pc = "sidecar dir" /\ pc' = "sidecar file") =>
       /\ Appended = <<>> /\ files_done' = files_done /\ sidecar_moved' = sidecar_moved
  /\ pc = "sidecar file" =>
       /\ files_done' = files_done + 1
       /\ \/ sidecar_moved' = sidecar_moved + 1 /\ Appended = <<>>
          \/ /\ sidecar_moved' = sidecar_moved
             /\ Len(Appended) = 1
             /\ Appended[1].kind = "organize sidecar skipped"
             /\ Appended[1].subject = PathStr(sidecar_files_by_dir[sdir].v[sfile])

\* C26: in _move_sidecar_candidates each collected sidecar file the loops
\* have passed is accounted for in exactly one way: counted in sidecar_moved,
\* the subject of an "organize sidecar skipped" warning, or a member of a
\* directory reported as unmapped or destination-skipped by one warning; so
\* sidecar_moved never exceeds the number of collected files, and files_done
\* equals files_total when the function returns.
C26_SidecarAccounting == []SidecarsAccounted /\ [][SidecarStep]_vars

\* an apply run returned having counted one sidecar file and reported a
\* directory of two files whole: three files collected, three done
C26_Witness ==
  /\ Returned /\ Applying
  /\ sidecar_moved = 1
  /\ \E d \in 1..Len(sidecar_files_by_dir) :
       Len(sidecar_files_by_dir[d].v) = 2 /\ DirectoryReports(d) # {}
  /\ files_done = 3 /\ files_total(sidecar_files_by_dir) = 3

CopyPass == copy_instead_of_move /\ Applying
\* every file the call found is where it was, holding what it held
SourcesKept ==
  /\ \A p \in DOMAIN files0 : p \in DOMAIN files /\ files[p] = files0[p]
  /\ dirs0 \subseteq dirs
\* every file counted as copied is at its target as well, which is a new path
CopiesMade ==
  /\ \A i \in 1..Len(outcome) :
       outcome[i].kind = "moved" =>
         /\ records[i].file_path \in DOMAIN files
         /\ outcome[i].target \in DOMAIN files \ DOMAIN files0
         /\ files[outcome[i].target] = files[records[i].file_path]
  /\ \A i \in 1..Len(sidecar_log) :
       /\ sidecar_log[i].src \in DOMAIN files
       /\ sidecar_log[i].dst \in DOMAIN files \ DOMAIN files0
       /\ files[sidecar_log[i].dst] = files[sidecar_log[i].src]

\* C27: in copy mode, throughout and after an apply run of organize_files
\* or organize_sidecar_files, every file that existed when the call began
\* is still at its path with its content and no directory is gone, and
\* every audio or sidecar file counted as processed is also at its final
\* target, a path that held nothing before.
C27_CopyLeavesSources == CopyPass => SourcesKept /\ CopiesMade

\* a copying run returned with an audio file and a sidecar file copied: the
\* tree holds two files more than before
C27_Witness ==
  /\ Returned /\ CopyPass /\ entry = "organize_files"
  /\ moved >= 1 /\ sidecar_moved >= 1
  /\ SourcesKept
  /\ Cardinality(DOMAIN files) = Cardinality(DOMAIN files0) + moved + sidecar_moved

====
